---------------------------- MODULE Spec2Model ----------------------------
(***************************************************************************)
(* A model of two files of the ivy repository:                             *)
(*   ivy/functional/backends/paddle/elementwise.py  (the paddle adapter)   *)
(*   ivy_tests/test_ivy/helpers/test_parameter_flags.py  (the test flags)  *)
(*                                                                         *)
(* A tensor is modelled by ONE element: elementwise operations act on each *)
(* element independently, so shapes and broadcasting are left out.  An     *)
(* element carries its dtype and its value (real and imaginary part).      *)
(*                                                                         *)
(* Numbers.  A number is a record [k, n]:                                  *)
(*   k = "int"   the integer n                                             *)
(*   k = "fin"   the finite float n / Scale                                *)
(*   k = "pinf", "ninf", "nan"   the IEEE special values                   *)
(*   k = "any"   a value the model does not follow (the result of a        *)
(*               transcendental kernel, or of an undefined conversion)     *)
(* Floats are a scaled-down IEEE format: exact on multiples of 1/Scale,    *)
(* and a finite result larger than FMaxWhole overflows to an infinity, as  *)
(* a float32 result larger than 3.4e38 does.  Rounding to the significand  *)
(* and the sign of zero are not modelled.                                  *)
(***************************************************************************)
EXTENDS Integers, Sequences, FiniteSets

VARIABLES x1, x2, alpha, default_float, res,
          flags, holder, call, ret, built, err, builds, env, drawn, kw, inner,
          assertions, last_built

\* x1, x2, alpha, kw: the operands and arguments of a call; res: what it returned;
\* inner: the call it made to another function of the backend.
\* flags: the strategy of every module-level DynamicFlag; built, err, builds: the
\* last build_flag call, what it raised, and the number of calls; last_built: per
\* key, the value of the last call that returned; assertions: whether the
\* interpreter executes assert statements; env, drawn: the test globals and the
\* last draw; holder, call, ret: the last apply_flags call and its result.
vars == <<x1, x2, alpha, default_float, res,
          flags, holder, call, ret, built, err, builds, env, drawn, kw, inner,
          assertions, last_built>>

---------------------------------------------------------------------------
(* Bounds of the model *)

\* fractional bits kept by a model float: finite floats are multiples of 1/2^FracBits
FracBits == 2
\* the finite sample inputs range over -MaxWhole .. MaxWhole
MaxWhole == 3
\* the largest finite float of the scaled-down format, in whole units
FMaxWhole == 1000

Scale == 2 ^ FracBits

FMax == FMaxWhole * Scale

---------------------------------------------------------------------------
(* Numbers *)

AnyV == [k |-> "any", n |-> 0]

NaN == [k |-> "nan", n |-> 0]

PInf == [k |-> "pinf", n |-> 0]

NInf == [k |-> "ninf", n |-> 0]

IntV(n) == [k |-> "int", n |-> n]

\* the float with numerator n (value n / Scale); overflow gives an infinity
Fin(n) ==
    IF n > FMax THEN PInf
    ELSE IF n < -FMax THEN NInf
    ELSE [k |-> "fin", n |-> n]

Whole(w) == Fin(w * Scale)

IsNum(a) == a.k \in {"int", "fin"}

\* mathematical sign of a number: -1, 0, 1 (0 for NaN)
Sgn(a) ==
    IF a.k = "pinf" THEN 1
    ELSE IF a.k = "ninf" THEN -1
    ELSE IF a.k = "nan" THEN 0
    ELSE IF a.n > 0 THEN 1 ELSE IF a.n < 0 THEN -1 ELSE 0

\* position of a non-NaN number on the extended real line
Key(a) ==
    IF a.k = "pinf" THEN FMax + 1
    ELSE IF a.k = "ninf" THEN -(FMax + 1)
    ELSE a.n

\* a finite result of the kind of its operand: integer stays integer
Mk(a, n) == IF a.k = "int" THEN IntV(n) ELSE Fin(n)

num_neg(a) ==
    IF a.k = "any" \/ a.k = "nan" THEN a
    ELSE IF a.k = "pinf" THEN NInf
    ELSE IF a.k = "ninf" THEN PInf
    ELSE Mk(a, -a.n)

num_add(a, b) ==
    IF a.k = "any" \/ b.k = "any" THEN AnyV
    ELSE IF a.k = "nan" \/ b.k = "nan" THEN NaN
    ELSE IF a.k \in {"pinf", "ninf"}
         THEN IF b.k \in {"pinf", "ninf"} /\ b.k # a.k THEN NaN ELSE a
    ELSE IF b.k \in {"pinf", "ninf"} THEN b
    ELSE Mk(a, a.n + b.n)

num_sub(a, b) == num_add(a, num_neg(b))

num_mul(a, b) ==
    IF a.k = "any" \/ b.k = "any" THEN AnyV
    ELSE IF a.k = "nan" \/ b.k = "nan" THEN NaN
    ELSE IF a.k \in {"pinf", "ninf"} \/ b.k \in {"pinf", "ninf"}
         THEN IF Sgn(a) * Sgn(b) = 0 THEN NaN
              ELSE IF Sgn(a) * Sgn(b) > 0 THEN PInf ELSE NInf
    ELSE IF a.k = "int" THEN IntV(a.n * b.n)
    ELSE LET p == a.n * b.n
             q == IF p >= 0 THEN p \div Scale ELSE -((-p) \div Scale)
         IN  Fin(q)

\* float division; a quotient that is no multiple of 1/Scale is not followed,
\* and the sign of a zero divisor is taken as positive
num_div(a, b) ==
    IF a.k = "any" \/ b.k = "any" THEN AnyV
    ELSE IF a.k = "nan" \/ b.k = "nan" THEN NaN
    ELSE IF a.k \in {"pinf", "ninf"}
         THEN IF b.k \in {"pinf", "ninf"} THEN NaN
              ELSE IF Sgn(a) * Sgn(b) >= 0 THEN a ELSE num_neg(a)
    ELSE IF b.k \in {"pinf", "ninf"} THEN Fin(0)
    ELSE IF b.n = 0
         THEN IF a.n = 0 THEN NaN ELSE IF a.n > 0 THEN PInf ELSE NInf
    ELSE LET p == (IF a.n >= 0 THEN a.n ELSE -a.n) * Scale
             q == IF b.n >= 0 THEN b.n ELSE -b.n
         IN  IF p % q # 0 THEN AnyV
             ELSE Fin(Sgn(a) * Sgn(b) * (p \div q))

num_abs(a) == IF Sgn(a) < 0 THEN num_neg(a) ELSE a

num_isnan(a) == a.k = "nan"

num_lt(a, b) == a.k # "nan" /\ b.k # "nan" /\ Key(a) < Key(b)

num_le(a, b) == a.k # "nan" /\ b.k # "nan" /\ Key(a) <= Key(b)

\* floor, ceiling and truncation of a float, as floats
FloorN(n) == (n \div Scale) * Scale

num_floor(a) == IF a.k = "fin" THEN Fin(FloorN(a.n)) ELSE a

num_ceil(a) == IF a.k = "fin" THEN Fin(-FloorN(-a.n)) ELSE a

num_trunc(a) ==
    IF a.k = "fin"
    THEN IF a.n >= 0 THEN Fin(FloorN(a.n)) ELSE Fin(-FloorN(-a.n))
    ELSE a

num_sign(a) ==
    IF a.k \in {"any", "nan"} THEN a
    ELSE IF a.k = "int" THEN IntV(Sgn(a))
    ELSE Whole(Sgn(a))

---------------------------------------------------------------------------
(* Dtypes and tensors *)

Dtypes ==
    {"bool", "int8", "int16", "int32", "int64", "uint8",
     "float16", "bfloat16", "float32", "float64", "complex64", "complex128"}

IntDtypes == {"int8", "int16", "int32", "int64", "uint8"}

FloatDtypes == {"float16", "bfloat16", "float32", "float64"}

ComplexDtypes == {"complex64", "complex128"}

is_float_dtype(d) == d \in FloatDtypes

is_complex_dtype(d) == d \in ComplexDtypes

\* a local variable of the code: v is computed once and F applied to its value
Bind(v, F(_)) == CHOOSE r \in { F(e) : e \in {v} } : TRUE

\* a tensor element: dtype, real part, imaginary part, and (bookkeeping only)
\* via, the dtype in which the last native kernel computed it
T(d, re, im) == [dtype |-> d, re |-> re, im |-> im, via |-> "none"]

Via(x, w) == [x EXCEPT !.via = w]

is_complex(x) == x.dtype \in ComplexDtypes

\* the zero of the kind a dtype stores
ZeroOf(d) == IF d \in IntDtypes \cup {"bool"} THEN IntV(0) ELSE Fin(0)

\* two's-complement wrap-around of an integer into a dtype; the 32 and 64 bit
\* ranges are never left by the model's values
Wrap(n, d) ==
    IF d = "int8" THEN ((n + 128) % 256) - 128
    ELSE IF d = "uint8" THEN n % 256
    ELSE IF d = "int16" THEN ((n + 32768) % 65536) - 32768
    ELSE n

\* conversion of one number to the kind dtype d stores
Conv(a, d) ==
    IF a.k = "any" THEN AnyV
    ELSE IF d = "bool"
         THEN IF a.k \in {"int", "fin"} /\ a.n = 0 THEN IntV(0) ELSE IntV(1)
    ELSE IF d \in IntDtypes
         THEN IF a.k = "int" THEN IntV(Wrap(a.n, d))
              ELSE IF a.k = "fin" THEN IntV(Wrap(num_trunc(a).n \div Scale, d))
              ELSE AnyV                     \* NaN or infinity to integer: undefined
    ELSE IF a.k = "int" THEN Fin(a.n * Scale)
    ELSE a

\* Tensor.astype / Tensor.cast
astype(x, d) ==
    [dtype |-> d,
     re |-> Conv(x.re, d),
     im |-> IF d \in ComplexDtypes /\ is_complex(x) THEN Conv(x.im, d) ELSE ZeroOf(d),
     via |-> x.via]

\* float precision a dtype needs: 1 = 16 bit, 2 = 32 bit, 3 = 64 bit
Level(d) ==
    IF d \in {"bool", "int8", "uint8", "float16", "bfloat16"} THEN 1
    ELSE IF d \in {"int16", "float32", "complex64"} THEN 2
    ELSE 3

Max2(a, b) == IF a >= b THEN a ELSE b

IntWidth(d) ==
    IF d = "int8" THEN 8 ELSE IF d = "int16" THEN 16
    ELSE IF d = "int32" THEN 32 ELSE 64

IntOfWidth(w) ==
    IF w = 8 THEN "int8" ELSE IF w = 16 THEN "int16"
    ELSE IF w = 32 THEN "int32" ELSE "int64"

\* ivy.promote_types: the promoted dtype of two dtypes
promote_types(d1, d2) ==
    IF d1 = d2 THEN d1
    ELSE IF d1 = "bool" THEN d2
    ELSE IF d2 = "bool" THEN d1
    ELSE IF d1 \in ComplexDtypes \/ d2 \in ComplexDtypes
         THEN IF Max2(Level(d1), Level(d2)) = 3 THEN "complex128" ELSE "complex64"
    ELSE IF d1 \in FloatDtypes \/ d2 \in FloatDtypes
         THEN LET l == Max2(Level(d1), Level(d2))
              IN  IF l = 3 THEN "float64"
                  ELSE IF l = 2 THEN "float32"
                  ELSE IF d1 \in FloatDtypes /\ d2 \in FloatDtypes THEN "float32"
                  ELSE IF d1 \in FloatDtypes THEN d1 ELSE d2
    ELSE IF d1 = "uint8" THEN IntOfWidth(Max2(16, IntWidth(d2)))
    ELSE IF d2 = "uint8" THEN IntOfWidth(Max2(16, IntWidth(d1)))
    ELSE IntOfWidth(Max2(IntWidth(d1), IntWidth(d2)))

\* ivy.promote_types_of_inputs: both operands cast to the promoted dtype
promote_types_of_inputs(a, b) ==
    LET p == promote_types(a.dtype, b.dtype)
    IN  <<astype(a, p), astype(b, p)>>

_elementwise_helper(a, b) ==
    LET pr == promote_types_of_inputs(a, b)
    IN  [x1 |-> pr[1], x2 |-> pr[2], ret_dtype |-> pr[1].dtype]

\* a Python scalar operand beside a tensor: it becomes a tensor of that dtype
scalar_like(x, w) ==
    T(x.dtype, IF ZeroOf(x.dtype).k = "int" THEN IntV(w) ELSE Whole(w), ZeroOf(x.dtype))

BoolT(b) == T("bool", IntV(IF b THEN 1 ELSE 0), IntV(0))

UnkBool == T("bool", AnyV, IntV(0))

IsUnk(x) == x.re.k = "any" \/ x.im.k = "any"

\* truth value of an element: nonzero (NaN counts as nonzero)
Truthy(x) ==
    ~(x.re.k \in {"int", "fin"} /\ x.re.n = 0)
    \/ (is_complex(x) /\ ~(x.im.k \in {"int", "fin"} /\ x.im.n = 0))

---------------------------------------------------------------------------
(* The native paddle kernels the adapter calls.  A kernel computes in the   *)
(* dtype of its operands and returns that dtype (comparisons and logical    *)
(* kernels return bool).                                                    *)

\* a tensor of dtype d whose value the model does not follow
AnyT(d) == T(d, AnyV, IF d \in ComplexDtypes THEN AnyV ELSE ZeroOf(d))

\* result of a kernel whose value is not followed (atan2, sin, log, ...)
paddle_opaque(a) == Via(AnyT(a.dtype), a.dtype)

paddle_add(a, b) ==
    Via(T(a.dtype, Conv(num_add(a.re, b.re), a.dtype),
                   Conv(num_add(a.im, b.im), a.dtype)), a.dtype)

paddle_subtract(a, b) ==
    Via(T(a.dtype, Conv(num_sub(a.re, b.re), a.dtype),
                   Conv(num_sub(a.im, b.im), a.dtype)), a.dtype)

paddle_multiply(a, b) ==
    IF is_complex(a)
    THEN Via(T(a.dtype,
               num_sub(num_mul(a.re, b.re), num_mul(a.im, b.im)),
               num_add(num_mul(a.re, b.im), num_mul(a.im, b.re))), a.dtype)
    ELSE Via(T(a.dtype, Conv(num_mul(a.re, b.re), a.dtype), ZeroOf(a.dtype)), a.dtype)

paddle_less_than(a, b) ==
    IF IsUnk(a) \/ IsUnk(b) THEN UnkBool ELSE BoolT(num_lt(a.re, b.re))

paddle_less_equal(a, b) ==
    IF IsUnk(a) \/ IsUnk(b) THEN UnkBool ELSE BoolT(num_le(a.re, b.re))

paddle_greater_than(a, b) ==
    IF IsUnk(a) \/ IsUnk(b) THEN UnkBool ELSE BoolT(num_lt(b.re, a.re))

paddle_greater_equal(a, b) ==
    IF IsUnk(a) \/ IsUnk(b) THEN UnkBool ELSE BoolT(num_le(b.re, a.re))

paddle_logical_and(a, b) ==
    IF IsUnk(a) \/ IsUnk(b) THEN UnkBool ELSE BoolT(Truthy(a) /\ Truthy(b))

paddle_logical_or(a, b) ==
    IF IsUnk(a) \/ IsUnk(b) THEN UnkBool ELSE BoolT(Truthy(a) \/ Truthy(b))

paddle_logical_not(a) == IF IsUnk(a) THEN UnkBool ELSE BoolT(~Truthy(a))

paddle_isnan(a) == IF IsUnk(a) THEN UnkBool ELSE BoolT(num_isnan(a.re))

\* Tensor.real() / Tensor.imag() of a complex tensor, and paddle.complex
ComponentDtype(d) == IF d = "complex128" THEN "float64" ELSE "float32"

real(x) == Via(T(ComponentDtype(x.dtype), x.re, Fin(0)), x.via)

imag(x) == Via(T(ComponentDtype(x.dtype), x.im, Fin(0)), x.via)

paddle_complex(r, i) ==
    Via(T(IF r.dtype = "float64" THEN "complex128" ELSE "complex64", r.re, i.re), r.via)

\* paddle.where on operands of one dtype
paddle_where(c, a, b) ==
    IF IsUnk(c) THEN Via(AnyT(a.dtype), a.via)
    ELSE IF Truthy(c) THEN a ELSE b

\* paddle_backend.where: the operands are promoted first
where(c, a, b) ==
    LET pr == promote_types_of_inputs(a, b)
    IN  paddle_where(c, pr[1], pr[2])

---------------------------------------------------------------------------
(* elementwise.py: logical operations and comparisons *)

logical_and(a, b) ==
    Bind(_elementwise_helper(a, b), LAMBDA h :
        IF h.ret_dtype \in {"uint8", "float16", "complex64", "complex128"}
        THEN paddle_logical_and(astype(h.x1, "float32"), astype(h.x2, "float32"))
        ELSE paddle_logical_and(h.x1, h.x2))

logical_or(a, b) ==
    Bind(_elementwise_helper(a, b), LAMBDA h :
        IF h.ret_dtype \in {"uint8", "float16", "complex64", "complex128"}
        THEN IF is_complex(h.x1)
             THEN paddle_logical_or(paddle_logical_or(real(h.x1), real(h.x2)),
                                    paddle_logical_or(imag(h.x1), imag(h.x2)))
             ELSE paddle_logical_or(astype(h.x1, "float32"), astype(h.x2, "float32"))
        ELSE paddle_logical_or(h.x1, h.x2))

isnan(x) ==
    IF x.dtype \in {"int8", "int16", "uint8", "complex64", "complex128", "bool"}
    THEN IF is_complex(x)
         THEN paddle_logical_or(paddle_isnan(real(x)), paddle_isnan(imag(x)))
         ELSE paddle_isnan(astype(x, "float32"))
    ELSE paddle_isnan(x)

less_equal_real_only(a, b) ==
    Bind(_elementwise_helper(a, b), LAMBDA h :
        IF h.x1.dtype \in {"int8", "uint8", "complex64", "complex128"}
        THEN IF is_complex(h.x1)
             THEN paddle_less_equal(real(h.x1), real(h.x2))
             ELSE paddle_less_equal(astype(h.x1, "float32"), astype(h.x2, "float32"))
        ELSE paddle_less_equal(h.x1, h.x2))

less_equal(a, b) ==
    Bind(_elementwise_helper(a, b), LAMBDA h :
        IF h.x1.dtype \in {"int8", "uint8", "complex64", "complex128"}
        THEN IF is_complex(h.x1)
             THEN logical_and(paddle_less_equal(real(h.x1), real(h.x2)),
                              paddle_less_equal(imag(h.x1), imag(h.x2)))
             ELSE paddle_less_equal(astype(h.x1, "float32"), astype(h.x2, "float32"))
        ELSE paddle_less_equal(h.x1, h.x2))

less(a, b) ==
    Bind(_elementwise_helper(a, b), LAMBDA h :
        IF h.x1.dtype \in {"int8", "uint8", "complex64", "complex128"}
        THEN IF is_complex(h.x1)
             THEN logical_and(paddle_less_than(real(h.x1), real(h.x2)),
                              paddle_less_than(imag(h.x1), imag(h.x2)))
             ELSE paddle_less_than(astype(h.x1, "float32"), astype(h.x2, "float32"))
        ELSE paddle_less_than(h.x1, h.x2))

greater(a, b) ==
    Bind(_elementwise_helper(a, b), LAMBDA h :
        IF h.x1.dtype \in {"int8", "uint8", "complex64", "complex128"}
        THEN IF is_complex(h.x1)
             THEN paddle_logical_and(paddle_greater_than(real(h.x1), real(h.x2)),
                                     paddle_greater_than(imag(h.x1), imag(h.x2)))
             ELSE paddle_greater_than(astype(h.x1, "float32"), astype(h.x2, "float32"))
        ELSE paddle_greater_than(h.x1, h.x2))

greater_equal(a, b) ==
    Bind(_elementwise_helper(a, b), LAMBDA h :
        IF h.x1.dtype \in {"int8", "uint8", "complex64", "complex128"}
        THEN IF is_complex(h.x1)
             THEN paddle_logical_and(paddle_greater_equal(real(h.x1), real(h.x2)),
                                     paddle_greater_equal(imag(h.x1), imag(h.x2)))
             ELSE paddle_greater_equal(astype(h.x1, "float32"), astype(h.x2, "float32"))
        ELSE paddle_greater_equal(h.x1, h.x2))

---------------------------------------------------------------------------
(* More native kernels: arithmetic with a followed value *)

paddle_neg(a) == Via(T(a.dtype, num_neg(a.re), num_neg(a.im)), a.dtype)

paddle_abs(a) == Via(T(a.dtype, num_abs(a.re), a.im), a.dtype)

paddle_floor(a) == Via(T(a.dtype, num_floor(a.re), a.im), a.dtype)

paddle_ceil(a) == Via(T(a.dtype, num_ceil(a.re), a.im), a.dtype)

paddle_trunc(a) == Via(T(a.dtype, num_trunc(a.re), a.im), a.dtype)

paddle_sign(a) == Via(T(a.dtype, num_sign(a.re), a.im), a.dtype)

paddle_square(a) == Via(T(a.dtype, Conv(num_mul(a.re, a.re), a.dtype), a.im), a.dtype)

\* paddle.minimum / paddle.maximum: a NaN operand is returned
paddle_minimum(a, b) ==
    IF IsUnk(a) \/ IsUnk(b) THEN paddle_opaque(a)
    ELSE IF num_isnan(a.re) THEN Via(a, a.dtype)
    ELSE IF num_isnan(b.re) THEN Via(b, a.dtype)
    ELSE IF num_le(a.re, b.re) THEN Via(a, a.dtype) ELSE Via(b, a.dtype)

paddle_maximum(a, b) ==
    IF IsUnk(a) \/ IsUnk(b) THEN paddle_opaque(a)
    ELSE IF num_isnan(a.re) THEN Via(a, a.dtype)
    ELSE IF num_isnan(b.re) THEN Via(b, a.dtype)
    ELSE IF num_le(b.re, a.re) THEN Via(a, a.dtype) ELSE Via(b, a.dtype)

\* Tensor.__truediv__: integer and bool operands give a float32 quotient;
\* the value of a quotient is not followed
\* the / of tensors: integers are divided as float32; complex quotients are not
\* followed
paddle_divide(a, b) ==
    LET d == IF a.dtype \in IntDtypes \cup {"bool"} THEN "float32" ELSE a.dtype
    IN  IF is_complex(a) THEN Via(AnyT(d), d)
        ELSE Via(T(d, num_div(Conv(a.re, d), Conv(b.re, d)), ZeroOf(d)), d)

---------------------------------------------------------------------------
(* elementwise.py: binary arithmetic *)

\* the alpha argument: None, or a Python bool, int or float of value n / Scale
NoAlpha == [k |-> "none", n |-> 0]

\* alpha in (1, None): Python compares by value, so 1, 1.0 and True are "in"
alpha_in_1_None(al) == al.k = "none" \/ al.n = Scale

\* the tensor a Python scalar becomes beside tensor x in promote_types_of_inputs:
\* a float beside a non-float tensor takes the default float dtype, every other
\* scalar takes the tensor's dtype
scalar_tensor(x, al, dflt) ==
    LET d == IF al.k = "float" /\ x.dtype \notin FloatDtypes \cup ComplexDtypes
             THEN dflt ELSE x.dtype
        v == IF IsUnk(x) THEN AnyV
             ELSE IF ZeroOf(d).k = "int" THEN IntV(al.n \div Scale) ELSE Fin(al.n)
    IN  T(d, v, ZeroOf(d))

multiply(a, b) ==
    Bind(_elementwise_helper(a, b), LAMBDA h :
    LET up == h.x1.dtype \in {"int8", "int16", "uint8", "float16"}
        y1 == IF up THEN astype(h.x1, "float32") ELSE h.x1
        y2 == IF up THEN astype(h.x2, "float32") ELSE h.x2
    IN  astype(paddle_multiply(y1, y2), h.ret_dtype))

\* alpha compared with the int 1 only
subtract_alpha_int_only(a, b, al, dflt) ==
    Bind(_elementwise_helper(a, b), LAMBDA h :
    LET up == h.x1.dtype \in {"int8", "uint8", "float16", "bool"}
        y1 == IF up THEN astype(h.x1, "float32") ELSE h.x1
        y2 == IF up THEN astype(h.x2, "float32") ELSE h.x2
        pr == IF al.k = "none" \/ (al.k = "int" /\ al.n = Scale) THEN <<y1, y2>>
              ELSE promote_types_of_inputs(y1, multiply(y2, scalar_tensor(y2, al, dflt)))
    IN  astype(paddle_subtract(pr[1], pr[2]), h.ret_dtype))

add_no_cast_back(a, b, al, dflt) ==
    Bind(_elementwise_helper(a, b), LAMBDA h :
    LET up == h.x1.dtype \in {"int8", "uint8", "float16", "bool", "bfloat16"}
        y1 == IF up THEN astype(h.x1, "float32") ELSE h.x1
        y2 == IF up THEN astype(h.x2, "float32") ELSE h.x2
    IN  paddle_add(y1, y2))

add(a, b, al, dflt) ==
    Bind(_elementwise_helper(a, b), LAMBDA h :
    LET up == h.x1.dtype \in {"int8", "uint8", "float16", "bool", "bfloat16"}
        y1 == IF up THEN astype(h.x1, "float32") ELSE h.x1
        y2 == IF up THEN astype(h.x2, "float32") ELSE h.x2
        pr == IF alpha_in_1_None(al) THEN <<y1, y2>>
              ELSE promote_types_of_inputs(y1, multiply(y2, scalar_tensor(y2, al, dflt)))
    IN  astype(paddle_add(pr[1], pr[2]), h.ret_dtype))

subtract(a, b, al, dflt) ==
    Bind(_elementwise_helper(a, b), LAMBDA h :
    LET up == h.x1.dtype \in {"int8", "uint8", "float16", "bool"}
        y1 == IF up THEN astype(h.x1, "float32") ELSE h.x1
        y2 == IF up THEN astype(h.x2, "float32") ELSE h.x2
        pr == IF alpha_in_1_None(al) THEN <<y1, y2>>
              ELSE promote_types_of_inputs(y1, multiply(y2, scalar_tensor(y2, al, dflt)))
    IN  astype(paddle_subtract(pr[1], pr[2]), h.ret_dtype))

atan2(a, b) ==
    Bind(_elementwise_helper(a, b), LAMBDA h :
    LET up == h.x1.dtype \in {"int8", "int16", "uint8"}
        y1 == IF up THEN astype(h.x1, "float32") ELSE h.x1
    IN  astype(paddle_opaque(y1), h.ret_dtype))

\* use_where ignored for real operands: the native kernel is always used
minimum_native_for_reals(a, b, use_where) ==
    Bind(_elementwise_helper(a, b), LAMBDA h :
    LET inlist == h.x1.dtype \in {"int8", "int16", "uint8", "float16",
                                  "complex64", "complex128", "bool"}
        up == inlist /\ ~is_complex(h.x1)
        y1 == IF up THEN astype(h.x1, "float32") ELSE h.x1
        y2 == IF up THEN astype(h.x2, "float32") ELSE h.x2
    IN  IF is_complex(h.x1)
        THEN astype(where(less_equal(y1, y2), y1, y2), h.ret_dtype)
        ELSE astype(paddle_minimum(y1, y2), h.ret_dtype))

minimum(a, b, use_where) ==
    Bind(_elementwise_helper(a, b), LAMBDA h :
    LET inlist == h.x1.dtype \in {"int8", "int16", "uint8", "float16",
                                  "complex64", "complex128", "bool"}
        uw == IF inlist /\ is_complex(h.x1) THEN TRUE ELSE use_where
        up == inlist /\ ~is_complex(h.x1)
        y1 == IF up THEN astype(h.x1, "float32") ELSE h.x1
        y2 == IF up THEN astype(h.x2, "float32") ELSE h.x2
    IN  IF uw
        THEN astype(where(less_equal(y1, y2), y1, y2), h.ret_dtype)
        ELSE astype(paddle_minimum(y1, y2), h.ret_dtype))

maximum(a, b, use_where) ==
    Bind(_elementwise_helper(a, b), LAMBDA h :
    LET inlist == h.x1.dtype \in {"int8", "int16", "uint8", "float16",
                                  "complex64", "complex128", "bool"}
        uw == IF inlist /\ is_complex(h.x1) THEN TRUE ELSE use_where
        up == inlist /\ ~is_complex(h.x1)
        y1 == IF up THEN astype(h.x1, "float32") ELSE h.x1
        y2 == IF up THEN astype(h.x2, "float32") ELSE h.x2
    IN  IF uw
        THEN astype(where(greater_equal(y1, y2), y1, y2), h.ret_dtype)
        ELSE astype(paddle_maximum(y1, y2), h.ret_dtype))

divide_keep_promoted(a, b, dflt) ==
    Bind(_elementwise_helper(a, b), LAMBDA h :
    LET up == h.x1.dtype \in {"float16", "bfloat16"}
        y1 == IF up THEN astype(h.x1, "float32") ELSE h.x1
        y2 == IF up THEN astype(h.x2, "float32") ELSE h.x2
    IN  astype(paddle_divide(y1, y2), h.ret_dtype))

divide(a, b, dflt) ==
    Bind(_elementwise_helper(a, b), LAMBDA h :
    LET up == h.x1.dtype \in {"float16", "bfloat16"}
        y1 == IF up THEN astype(h.x1, "float32") ELSE h.x1
        y2 == IF up THEN astype(h.x2, "float32") ELSE h.x2
        rd == IF ~(is_float_dtype(h.ret_dtype) \/ is_complex_dtype(h.ret_dtype))
              THEN dflt ELSE h.ret_dtype
    IN  astype(paddle_divide(y1, y2), rd))

equal(a, b, dflt) ==
    Bind(_elementwise_helper(a, b), LAMBDA h :
    Bind(subtract(h.x1, h.x2, NoAlpha, dflt), LAMBDA diff :
    Bind(logical_and(less_equal(diff, scalar_like(diff, 0)),
                     greater_equal(diff, scalar_like(diff, 0))), LAMBDA rt :
        where(isnan(diff),
              paddle_logical_not(logical_or(isnan(h.x1), isnan(h.x2))),
              rt))))

---------------------------------------------------------------------------
(* elementwise.py: unary operations *)

\* the dtype list shared by the trigonometric and hyperbolic functions
Ints_F16 == {"int8", "int16", "int32", "int64", "uint8", "float16"}

\* the dtype list shared by log, log2, log10 and log1p
Ints_F16_Complex_Bool == Ints_F16 \cup {"complex64", "complex128", "bool"}

\* x.astype(w), the native kernel K, and the cast back to the dtype of x
Upcast(K(_), x, w) == astype(K(astype(x, w)), x.dtype)

\* a complex result assembled with paddle.complex from kernels on the components
complex_opaque(x) == paddle_complex(paddle_opaque(real(x)), paddle_opaque(imag(x)))

ceil_no_cast_back(x) ==
    IF x.dtype \in {"int8", "int16", "int32", "uint8", "float16",
                    "complex64", "complex128", "bool"}
    THEN IF is_complex(x)
         THEN paddle_complex(paddle_ceil(real(x)), paddle_ceil(imag(x)))
         ELSE paddle_ceil(astype(x, "float32"))
    ELSE IF x.dtype = "int64" THEN paddle_ceil(astype(x, "float64"))
    ELSE paddle_ceil(x)

ceil(x) ==
    IF x.dtype \in {"int8", "int16", "int32", "uint8", "float16",
                    "complex64", "complex128", "bool"}
    THEN IF is_complex(x)
         THEN paddle_complex(paddle_ceil(real(x)), paddle_ceil(imag(x)))
         ELSE Upcast(paddle_ceil, x, "float32")
    ELSE IF x.dtype = "int64" THEN Upcast(paddle_ceil, x, "float64")
    ELSE paddle_ceil(x)

floor(x) ==
    IF x.dtype \in {"int8", "int16", "int32", "uint8", "float16",
                    "complex64", "complex128", "bool"}
    THEN IF is_complex(x)
         THEN paddle_complex(paddle_floor(real(x)), paddle_floor(imag(x)))
         ELSE Upcast(paddle_floor, x, "float32")
    ELSE IF x.dtype = "int64" THEN Upcast(paddle_floor, x, "float64")
    ELSE paddle_floor(x)

trunc(x) ==
    IF x.dtype \in {"int8", "int16", "uint8", "float16",
                    "complex64", "complex128", "bool"}
    THEN IF is_complex(x)
         THEN paddle_complex(paddle_trunc(real(x)), paddle_trunc(imag(x)))
         ELSE Upcast(paddle_trunc, x, "float32")
    ELSE paddle_trunc(x)

sign(x) ==
    IF x.dtype \in {"int8", "int16", "int32", "int64", "uint8",
                    "float16", "bfloat16", "bool"}
    THEN Upcast(paddle_sign, x, "float32")
    ELSE paddle_sign(x)

abs(x) ==
    IF x.dtype \in {"int8", "int16", "uint8", "float16", "bfloat16", "bool"}
    THEN Upcast(paddle_abs, x, "float32")
    ELSE paddle_abs(x)

_determine_sqrt_dtype_cast(d) ==
    IF d \in {"int8", "int16", "int32", "uint8", "bool"} THEN <<"float32", "float32">>
    ELSE IF d = "int64" THEN <<"float64", "float64">>
    ELSE IF d = "float16" THEN <<"float32", "float16">>
    ELSE IF d = "bfloat16" THEN <<"float32", "bfloat16">>
    ELSE <<"None", "None">>

\* every dtype of the model is handled; the ValueError branch is not reached
sqrt(x) ==
    IF is_complex(x) THEN complex_opaque(x)
    ELSE IF x.dtype \in {"float32", "float64"} THEN paddle_opaque(x)
    ELSE LET c == _determine_sqrt_dtype_cast(x.dtype)
         IN  astype(paddle_opaque(astype(x, c[1])), c[2])

sin(x) ==
    IF x.dtype \in Ints_F16 THEN Upcast(paddle_opaque, x, "float32")
    ELSE IF is_complex(x) THEN complex_opaque(x)
    ELSE paddle_opaque(x)

cos(x) ==
    IF x.dtype \in Ints_F16 THEN Upcast(paddle_opaque, x, "float32")
    ELSE IF is_complex(x) THEN complex_opaque(x)
    ELSE paddle_opaque(x)

sinh(x) ==
    IF x.dtype \in Ints_F16 THEN Upcast(paddle_opaque, x, "float32")
    ELSE IF is_complex(x) THEN complex_opaque(x)
    ELSE paddle_opaque(x)

cosh(x) ==
    IF x.dtype \in Ints_F16 THEN Upcast(paddle_opaque, x, "float32")
    ELSE IF is_complex(x) THEN complex_opaque(x)
    ELSE paddle_opaque(x)

acos(x) ==
    IF x.dtype \in Ints_F16 THEN Upcast(paddle_opaque, x, "float32")
    ELSE IF is_complex(x) THEN complex_opaque(x)
    ELSE paddle_opaque(x)

acosh(x) ==
    IF x.dtype \in Ints_F16 THEN Upcast(paddle_opaque, x, "float32")
    ELSE IF is_complex(x) THEN complex_opaque(x)
    ELSE paddle_opaque(x)

asinh(x) ==
    IF x.dtype \in Ints_F16 THEN Upcast(paddle_opaque, x, "float32")
    ELSE IF is_complex(x) THEN complex_opaque(x)
    ELSE paddle_opaque(x)

\* the complex branch divides two complex tensors built from tanh and tan of the
\* components: a complex tensor of the dtype of x
tanh(x) ==
    IF x.dtype \in Ints_F16 THEN Upcast(paddle_opaque, x, "float32")
    ELSE IF is_complex(x) THEN Via(AnyT(x.dtype), x.dtype)
    ELSE paddle_opaque(x)

\* the tensor asin passes to asinh for a complex x
asin_argument(x) == paddle_complex(paddle_neg(imag(x)), real(x))

\* the tensor asin returns for a complex x, from asinh_iz, the output of asinh
asin_result(asinh_iz) == paddle_complex(imag(asinh_iz), paddle_neg(real(asinh_iz)))

asin(x) ==
    IF x.dtype \in Ints_F16 THEN Upcast(paddle_opaque, x, "float32")
    ELSE IF is_complex(x)
         THEN asin_result(asinh(asin_argument(x)))
    ELSE paddle_opaque(x)

\* the tensor tan passes to tanh for a complex x
tan_argument(x) == paddle_complex(paddle_neg(imag(x)), real(x))

\* i times the output of tanh, not -i times
tan_swapped_back(tanh_ix) == paddle_complex(paddle_neg(imag(tanh_ix)), real(tanh_ix))

\* the tensor tan returns for a complex x, from tanh_ix, the output of tanh
tan_result(tanh_ix) == paddle_complex(imag(tanh_ix), paddle_neg(real(tanh_ix)))

tan(x) ==
    IF x.dtype \in Ints_F16 THEN Upcast(paddle_opaque, x, "float32")
    ELSE IF is_complex(x)
         THEN tan_result(tanh(tan_argument(x)))
    ELSE paddle_opaque(x)

log(x) ==
    IF x.dtype \in Ints_F16_Complex_Bool
    THEN IF is_complex(x) THEN complex_opaque(x)
         ELSE Upcast(paddle_opaque, x, "float32")
    ELSE paddle_opaque(x)

\* 0.5 * (log(1 + x) - log(1 - x)) for complex x
atanh(x) ==
    IF x.dtype \in Ints_F16 THEN Upcast(paddle_opaque, x, "float32")
    ELSE IF is_complex(x)
         THEN paddle_multiply(T(x.dtype, Fin(Scale \div 2), Fin(0)),
                  paddle_subtract(log(paddle_add(scalar_like(x, 1), x)),
                                  log(paddle_subtract(scalar_like(x, 1), x))))
    ELSE paddle_opaque(x)

\* the tensor atan passes to atanh for a complex x
atan_argument(x) == paddle_complex(paddle_neg(imag(x)), real(x))

\* the tensor atan returns for a complex x, from atanh_iz, the output of atanh
atan_result(atanh_iz) == paddle_complex(imag(atanh_iz), paddle_neg(real(atanh_iz)))

atan(x) ==
    IF x.dtype \in Ints_F16 THEN Upcast(paddle_opaque, x, "float32")
    ELSE IF x.dtype \in {"complex64", "complex128"}
         THEN atan_result(atanh(atan_argument(x)))
    ELSE paddle_opaque(x)

\* base is paddle.to_tensor(10.0): a float32 tensor
log10(x, dflt) ==
    IF x.dtype \in Ints_F16_Complex_Bool
    THEN IF is_complex(x)
         THEN astype(divide(log(x), log(AnyT("float32")), dflt), x.dtype)
         ELSE Upcast(paddle_opaque, x, "float32")
    ELSE paddle_opaque(x)

log2(x, dflt) ==
    IF x.dtype \in Ints_F16_Complex_Bool
    THEN IF is_complex(x)
         THEN astype(divide(log(x), log(AnyT("float32")), dflt), x.dtype)
         ELSE Upcast(paddle_opaque, x, "float32")
    ELSE paddle_opaque(x)

log1p(x) ==
    IF x.dtype \in Ints_F16_Complex_Bool
    THEN IF is_complex(x) THEN log(paddle_add(x, scalar_like(x, 1)))
         ELSE Upcast(paddle_opaque, x, "float32")
    ELSE paddle_opaque(x)

erf(x) ==
    IF x.dtype \in {"int8", "int16", "int32", "int64", "uint8"}
    THEN Upcast(paddle_opaque, x, "float32")
    ELSE paddle_opaque(x)

deg2rad(x) ==
    IF x.dtype \in {"int32", "int64", "bool"}
    THEN Upcast(paddle_opaque, x, "float32")
    ELSE paddle_opaque(x)

rad2deg(x) ==
    IF x.dtype \in {"int32", "int64", "bool"}
    THEN Upcast(paddle_opaque, x, "float32")
    ELSE paddle_opaque(x)

---------------------------------------------------------------------------
(* elementwise.py: pow, square and round *)

\* pow: every branch returns the promoted dtype; the value is not followed
pow(a, b) ==
    Bind(_elementwise_helper(a, b), LAMBDA h :
        IF h.x1.dtype \in {"int8", "int16", "uint8", "float16", "bool"}
        THEN astype(paddle_opaque(astype(h.x1, "float32")), h.ret_dtype)
        ELSE astype(paddle_opaque(h.x1), h.ret_dtype))

square(x) ==
    IF x.dtype \in {"int32", "int64", "float32", "float64"} THEN paddle_square(x)
    ELSE IF is_complex(x)
         THEN paddle_complex(
                  paddle_subtract(paddle_square(real(x)), paddle_square(imag(x))),
                  paddle_multiply(paddle_multiply(scalar_like(real(x), 2), real(x)),
                                  imag(x)))
    ELSE astype(pow(x, scalar_like(x, 2)), x.dtype)

\* paddle.bitwise_and(t, one) == v for an int64 tensor t and the tensor one = 1:
\* the lowest bit of the two's-complement integer compared with v
lowest_bit_is(t, v) == IF IsUnk(t) THEN UnkBool ELSE BoolT(t.re.n % 2 = v)

_np_round(x) ==
    LET is_even == lowest_bit_is(astype(trunc(x), "int64"), 0)
        round_x == paddle_multiply(paddle_sign(x),
                       paddle_where(is_even, paddle_floor(paddle_abs(x)),
                                             paddle_ceil(paddle_abs(x))))
    IN  paddle_where(
            paddle_logical_and(lowest_bit_is(astype(round_x, "int64"), 1), is_even),
            paddle_subtract(round_x, scalar_like(round_x, 1)),
            round_x)

round(x) ==
    IF x.dtype \notin {"float32", "float64"}
    THEN IF is_complex(x)
         THEN paddle_complex(_np_round(real(x)), _np_round(imag(x)))
         ELSE astype(_np_round(astype(x, "float32")), x.dtype)
    ELSE astype(_np_round(x), x.dtype)

---------------------------------------------------------------------------
(* test_parameter_flags.py: the module-level flags and build_flag *)

\* hypothesis strategies, by name; st.just(v) carries its value
st_lists_booleans == [kind |-> "lists(booleans, min_size=1, max_size=1)", v |-> ""]

st_booleans == [kind |-> "booleans", v |-> ""]

st_just(v) == [kind |-> "just", v |-> v]

_gradient_strategy == [kind |-> "_gradient_strategy", v |-> ""]

_as_varaible_strategy == [kind |-> "_as_varaible_strategy", v |-> ""]

PyNone == [kind |-> "None", v |-> ""]

\* the strategy field of every module-level DynamicFlag, as set at import time
ImportFlags ==
    [BuiltNativeArrayStrategy |-> st_lists_booleans,
     BuiltAsVariableStrategy |-> _as_varaible_strategy,
     BuiltContainerStrategy |-> st_lists_booleans,
     BuiltInstanceStrategy |-> st_booleans,
     BuiltInplaceStrategy |-> st_just("False"),
     BuiltGradientStrategy |-> _gradient_strategy,
     BuiltWithOutStrategy |-> st_booleans,
     BuiltCompileStrategy |-> st_booleans,
     BuiltFrontendArrayStrategy |-> st_booleans,
     BuiltTranspileStrategy |-> st_just("False"),
     BuiltPrecisionModeStrategy |-> st_booleans]

flags_mapping ==
    [native_array |-> "BuiltNativeArrayStrategy",
     as_variable |-> "BuiltAsVariableStrategy",
     container |-> "BuiltContainerStrategy",
     instance_method |-> "BuiltInstanceStrategy",
     test_gradients |-> "BuiltGradientStrategy",
     with_out |-> "BuiltWithOutStrategy",
     inplace |-> "BuiltInplace",
     test_compile |-> "BuiltCompileStrategy",
     transpile |-> "BuiltTranspileStrategy",
     precision_mode |-> "BuiltPrecisionModeStrategy"]

\* build_flag that puts every other flag back to its import-time strategy
build_flag_resets_others(fl, key, value, asserts) ==
    IF key \notin DOMAIN flags_mapping THEN [flags |-> fl, err |-> "KeyError"]
    ELSE IF flags_mapping[key] \notin DOMAIN fl
         THEN [flags |-> fl, err |-> IF asserts THEN "AssertionError" ELSE "KeyError"]
    ELSE [flags |-> [ImportFlags EXCEPT ![flags_mapping[key]] =
                        IF value # "None" THEN st_just(value) ELSE PyNone],
          err |-> "none"]

\* build_flag without its assert statement
build_flag_no_assert(fl, key, value, asserts) ==
    IF key \notin DOMAIN flags_mapping THEN [flags |-> fl, err |-> "KeyError"]
    ELSE IF flags_mapping[key] \notin DOMAIN fl
         THEN [flags |-> fl, err |-> "KeyError"]
    ELSE [flags |-> [fl EXCEPT ![flags_mapping[key]] =
                        IF value # "None" THEN st_just(value) ELSE PyNone],
          err |-> "none"]

build_flag_always_just(fl, key, value, asserts) ==
    IF key \notin DOMAIN flags_mapping THEN [flags |-> fl, err |-> "KeyError"]
    ELSE IF flags_mapping[key] \notin DOMAIN fl
         THEN [flags |-> fl, err |-> IF asserts THEN "AssertionError" ELSE "KeyError"]
    ELSE [flags |-> [fl EXCEPT ![flags_mapping[key]] = st_just(value)],
          err |-> "none"]

\* build_flag(key, value) on the module globals fl: the globals after the call and
\* the exception raised ("none" when the call returns).  asserts tells whether the
\* interpreter executes assert statements (it does not under python -O, and then
\* the lookup in globals() raises instead)
build_flag(fl, key, value, asserts) ==
    IF key \notin DOMAIN flags_mapping THEN [flags |-> fl, err |-> "KeyError"]
    ELSE IF flags_mapping[key] \notin DOMAIN fl
         THEN [flags |-> fl, err |-> IF asserts THEN "AssertionError" ELSE "KeyError"]
    ELSE [flags |-> [fl EXCEPT ![flags_mapping[key]] =
                        IF value # "None" THEN st_just(value) ELSE PyNone],
          err |-> "none"]

---------------------------------------------------------------------------
(* test_parameter_flags.py: the flag holders and apply_flags *)

\* the materialized values.  A leaf is the backend array of an entry and a dtype
\* with the wrapping steps applied to it, in order; a container holds three leaves.
NoLeaf == [entry |-> 0, dtype |-> 0, steps |-> <<>>]

backend_array(entry, dtype) == [entry |-> entry, dtype |-> dtype, steps |-> <<"array">>]

_variable(x) == [x EXCEPT !.steps = Append(@, "variable")]

to_native(x) == [x EXCEPT !.steps = Append(@, "native")]

Plain(x) == [container |-> FALSE, x |-> x, a |-> NoLeaf, c |-> NoLeaf, d |-> NoLeaf]

\* backend.Container({"a": x, "b": {"c": x, "d": x}})
Container(x) == [container |-> TRUE, x |-> NoLeaf, a |-> x, c |-> x, d |-> x]

\* the loop body shared by the five apply_flags: array, variable, native
ArrayVariableNative(entry, dtype, as_var, native) ==
    LET x0 == backend_array(entry, dtype)
        x1v == IF as_var THEN _variable(x0) ELSE x0
    IN  IF native THEN to_native(x1v) ELSE x1v

FunctionTestFlags_native_first(self, args, input_dtypes, offset) ==
    [k \in 1 .. Len(args) |->
        LET i == offset + k
            x0 == backend_array(args[k], input_dtypes[i])
            xn == IF self.native_arrays[i] THEN to_native(x0) ELSE x0
            xv == IF self.as_variable[i] THEN _variable(xn) ELSE xn
        IN  IF self.container[i] THEN Container(xv) ELSE Plain(xv)]

FunctionTestFlags_apply_flags(self, args, input_dtypes, offset) ==
    [k \in 1 .. Len(args) |->
        LET i == offset + k
            x == ArrayVariableNative(args[k], input_dtypes[i],
                                     self.as_variable[i], self.native_arrays[i])
        IN  IF self.container[i] THEN Container(x) ELSE Plain(x)]

FrontendFunctionTestFlags_no_offset(self, args, input_dtypes, offset) ==
    [k \in 1 .. Len(args) |->
        Plain(ArrayVariableNative(args[k], input_dtypes[k],
                                  self.as_variable[k], self.native_arrays[k]))]

FrontendFunctionTestFlags_apply_flags(self, args, input_dtypes, offset) ==
    [k \in 1 .. Len(args) |->
        LET i == offset + k
        IN  Plain(ArrayVariableNative(args[k], input_dtypes[i],
                                      self.as_variable[i], self.native_arrays[i]))]

\* InitMethodTestFlags.apply_flags without the as_variable step
InitMethodTestFlags_never_variable(self, args, input_dtypes, offset) ==
    [k \in 1 .. Len(args) |->
        LET i == offset + k
        IN  Plain(ArrayVariableNative(args[k], input_dtypes[i],
                                      FALSE, self.native_arrays[i]))]

InitMethodTestFlags_apply_flags(self, args, input_dtypes, offset) ==
    [k \in 1 .. Len(args) |->
        LET i == offset + k
        IN  Plain(ArrayVariableNative(args[k], input_dtypes[i],
                                      self.as_variable[i], self.native_arrays[i]))]

MethodTestFlags_apply_flags(self, args, input_dtypes, offset) ==
    [k \in 1 .. Len(args) |->
        LET i == offset + k
            x == ArrayVariableNative(args[k], input_dtypes[i],
                                     self.as_variable[i], self.native_arrays[i])
        IN  IF self.container[i] THEN Container(x) ELSE Plain(x)]

FrontendMethodTestFlags_apply_flags(self, args, input_dtypes, offset) ==
    [k \in 1 .. Len(args) |->
        LET i == offset + k
        IN  Plain(ArrayVariableNative(args[k], input_dtypes[i],
                                      self.as_variable[i], self.native_arrays[i]))]

---------------------------------------------------------------------------
(* Inputs of the elementwise operations *)

\* complex sample components range over the whole numbers -MaxComp .. MaxComp
MaxComp == 1

NoRes == [op |-> "none", out |-> BoolT(FALSE), uw |-> FALSE]

\* the keyword arguments of a call, at their defaults; None is the number of kind "none"
PyNoneV == [k |-> "none", n |-> 0]

NoKw ==
    [detect_positive |-> TRUE, detect_negative |-> TRUE, modulus |-> TRUE,
     copy |-> TRUE, nan |-> Fin(0), posinf |-> PyNoneV, neginf |-> PyNoneV]

\* no call to another function of the backend is recorded
NoInner == [fn |-> "none"]

Alphas ==
    {NoAlpha,
     [k |-> "int", n |-> Scale], [k |-> "int", n |-> 2 * Scale],
     [k |-> "float", n |-> Scale], [k |-> "float", n |-> 2 * Scale + Scale \div 2],
     [k |-> "bool", n |-> Scale]}

\* ivy's default float dtype is a setting of the library
DefaultFloats == {"float16", "float32", "float64"}

Specials == {PInf, NInf, NaN, Fin(FMax), Fin(-FMax)}

RealSamples == {Fin(n) : n \in (-MaxWhole * Scale) .. (MaxWhole * Scale)} \cup Specials

CompSamples == {Whole(w) : w \in -MaxComp .. MaxComp} \cup Specials

Float32Inputs == {T("float32", v, Fin(0)) : v \in RealSamples}

Complex64Inputs == {T("complex64", v[1], v[2]) : v \in CompSamples \X CompSamples}

Int8Inputs == {T("int8", IntV(n), IntV(0)) : n \in {-128, -127, -1, 0, 1, 126, 127}}

UInt8Inputs == {T("uint8", IntV(n), IntV(0)) : n \in {0, 1, 127, 128, 255}}

ValuePairs ==
    (Float32Inputs \X Float32Inputs) \cup (Complex64Inputs \X Complex64Inputs)
    \cup (Int8Inputs \X Int8Inputs) \cup (UInt8Inputs \X UInt8Inputs)

---------------------------------------------------------------------------
(* Specification of the dtype dispatch: one call of one operation on operands *)
(* of every pair of dtypes, the values not followed                          *)

\* the test-flags module right after import, no holder used yet
NoHolder == [cls |-> "none", as_variable |-> <<>>, native_arrays |-> <<>>, container |-> <<>>]

NoCall == [args |-> <<>>, input_dtypes |-> <<>>, offset |-> 0, at |-> 0, done |-> FALSE]

NoBuilt == [key |-> "", value |-> "None"]

\* test_globals as the module finds them when nothing was set up, and no draw made
NoEnv == [backend |-> "_Notsetval", frontend |-> "_Notsetval", frontend_str |-> "None"]

NoDrawn == [flag |-> "", value |-> ""]

\* build_flag has not returned for any key
NoLastBuilt == [key \in DOMAIN flags_mapping |-> "unset"]

ModuleIdle ==
    /\ flags = ImportFlags
    /\ holder = NoHolder
    /\ call = NoCall
    /\ ret = <<>>
    /\ built = NoBuilt
    /\ err = "none"
    /\ builds = 0
    /\ drawn = NoDrawn
    /\ last_built = NoLastBuilt

\* assertions: the interpreter executes assert statements (it was not started
\* with -O)
FlagsIdle == ModuleIdle /\ env = NoEnv /\ assertions = TRUE

InitDtype ==
    /\ x1 \in {AnyT(d) : d \in Dtypes}
    /\ x2 \in {AnyT(d) : d \in Dtypes}
    /\ alpha = NoAlpha
    /\ default_float \in DefaultFloats
    /\ res = NoRes
    /\ kw = NoKw
    /\ inner = NoInner
    /\ FlagsIdle

Return(op, out) ==
    /\ res = NoRes
    /\ res' = [op |-> op, out |-> out, uw |-> FALSE]
    /\ UNCHANGED <<x1, x2, alpha, default_float, flags, holder, call, ret, built, err, builds,
                 env, drawn, kw, inner, assertions, last_built>>

ReturnUW(op, out, uw) ==
    /\ res = NoRes
    /\ res' = [op |-> op, out |-> out, uw |-> uw]
    /\ UNCHANGED <<x1, x2, alpha, default_float, flags, holder, call, ret, built, err, builds,
                 env, drawn, kw, inner, assertions, last_built>>

ReturnAlpha(op, out, al) ==
    /\ res = NoRes
    /\ res' = [op |-> op, out |-> out, uw |-> FALSE]
    /\ alpha' = al
    /\ UNCHANGED <<x1, x2, default_float, flags, holder, call, ret, built, err, builds,
                 env, drawn, kw, inner, assertions, last_built>>

Add == \E al \in Alphas : ReturnAlpha("add", add(x1, x2, al, default_float), al)

Subtract ==
    \E al \in Alphas : ReturnAlpha("subtract", subtract(x1, x2, al, default_float), al)

Multiply == Return("multiply", multiply(x1, x2))

Atan2 == Return("atan2", atan2(x1, x2))

Minimum == \E uw \in BOOLEAN : ReturnUW("minimum", minimum(x1, x2, uw), uw)

Maximum == \E uw \in BOOLEAN : ReturnUW("maximum", maximum(x1, x2, uw), uw)

Divide == Return("divide", divide(x1, x2, default_float))

UnaryOps ==
    {"ceil", "floor", "trunc", "sign", "abs", "sin", "cos", "tan", "asin", "acos",
     "atan", "sinh", "cosh", "tanh", "asinh", "acosh", "atanh", "log", "log2",
     "log10", "log1p", "erf", "deg2rad", "rad2deg", "round", "sqrt"}

ApplyUnary(op, x, dflt) ==
    CASE op = "ceil" -> ceil(x)
      [] op = "floor" -> floor(x)
      [] op = "trunc" -> trunc(x)
      [] op = "sign" -> sign(x)
      [] op = "abs" -> abs(x)
      [] op = "sin" -> sin(x)
      [] op = "cos" -> cos(x)
      [] op = "tan" -> tan(x)
      [] op = "asin" -> asin(x)
      [] op = "acos" -> acos(x)
      [] op = "atan" -> atan(x)
      [] op = "sinh" -> sinh(x)
      [] op = "cosh" -> cosh(x)
      [] op = "tanh" -> tanh(x)
      [] op = "asinh" -> asinh(x)
      [] op = "acosh" -> acosh(x)
      [] op = "atanh" -> atanh(x)
      [] op = "log" -> log(x)
      [] op = "log2" -> log2(x, dflt)
      [] op = "log10" -> log10(x, dflt)
      [] op = "log1p" -> log1p(x)
      [] op = "erf" -> erf(x)
      [] op = "deg2rad" -> deg2rad(x)
      [] op = "rad2deg" -> rad2deg(x)
      [] op = "round" -> round(x)
      [] op = "sqrt" -> sqrt(x)

Unary == \E op \in UnaryOps : Return(op, ApplyUnary(op, x1, default_float))

NextDtype ==
    \/ Add
    \/ Subtract
    \/ Multiply
    \/ Atan2
    \/ Minimum
    \/ Maximum
    \/ Divide
    \/ Unary

SpecDtype == InitDtype /\ [][NextDtype]_vars

---------------------------------------------------------------------------
(* Specification of the values: one call of one operation on sample values *)

InitValue ==
    /\ \E p \in ValuePairs : x1 = p[1] /\ x2 = p[2]
    /\ alpha = NoAlpha
    /\ default_float = "float32"
    /\ res = NoRes
    /\ kw = NoKw
    /\ inner = NoInner
    /\ FlagsIdle

Less == Return("less", less(x1, x2))

LessEqual == Return("less_equal", less_equal(x1, x2))

Greater == Return("greater", greater(x1, x2))

GreaterEqual == Return("greater_equal", greater_equal(x1, x2))

Equal == Return("equal", equal(x1, x2, default_float))

Square == Return("square", square(x1))

Round == Return("round", round(x1))

NextValue ==
    \/ Less
    \/ LessEqual
    \/ Greater
    \/ GreaterEqual
    \/ Equal
    \/ Square
    \/ Round

SpecValue == InitValue /\ [][NextValue]_vars

---------------------------------------------------------------------------
(* Claims about the dtype dispatch (specification SpecDtype) *)

PromotedOps == {"add", "subtract", "multiply", "atan2", "minimum", "maximum"}

\* C1: add, subtract, multiply, atan2, minimum and maximum return a tensor whose
\* dtype is the promoted dtype of the two operands computed by _elementwise_helper,
\* for every pair of operand dtypes, also when the operands were upcast to float32
\* for the native kernel.
C1_PromotedDtype ==
    res.op \in PromotedOps => res.out.dtype = _elementwise_helper(x1, x2).ret_dtype

\* an int8 sum: computed by the float32 kernel, returned as int8
C1_Witness ==
    /\ res.op = "add"
    /\ x1.dtype = "int8" /\ x2.dtype = "bool"
    /\ res.out.via = "float32"
    /\ res.out.dtype = "int8"

\* the call of a unary operation took its upcast path: the input is not complex and
\* the native kernel computed in another dtype than the input's
UpcastPath ==
    /\ res.op \in UnaryOps
    /\ ~is_complex(x1)
    /\ res.out.via # x1.dtype

\* C2 as stated: on the upcast path every listed unary operation, sqrt included,
\* returns the dtype of its input.
C2_Original == UpcastPath => res.out.dtype = x1.dtype

\* C2 (amended): on the upcast path every listed unary operation other than sqrt
\* returns the dtype of its input; sqrt returns the input dtype for float16 and
\* bfloat16 only, float32 for int8, int16, int32, uint8 and bool, float64 for int64.
C2_CastBack ==
    UpcastPath =>
        res.out.dtype =
            IF res.op = "sqrt" /\ x1.dtype \in IntDtypes \cup {"bool"}
            THEN (IF x1.dtype = "int64" THEN "float64" ELSE "float32")
            ELSE x1.dtype

\* sqrt of an int64 tensor, computed and returned in float64
C2_Witness ==
    /\ res.op = "sqrt"
    /\ x1.dtype = "int64"
    /\ UpcastPath
    /\ res.out.dtype = "float64"

\* C3: divide returns the promoted dtype when it is a float or complex dtype and the
\* default float dtype otherwise; float16 and bfloat16 are computed in float32.
C3_DivideDtype ==
    res.op = "divide" =>
        LET p == promote_types(x1.dtype, x2.dtype)
        IN  /\ res.out.dtype = IF p \in FloatDtypes \cup ComplexDtypes
                               THEN p ELSE default_float
            /\ res.out.dtype \notin IntDtypes \cup {"bool"}
            /\ p \in {"float16", "bfloat16"} => res.out.via = "float32"

\* an integer quotient returned in the default float dtype
C3_Witness ==
    /\ res.op = "divide"
    /\ x1.dtype = "int32" /\ x2.dtype = "bool"
    /\ default_float = "float64"
    /\ res.out.dtype = "float64"

---------------------------------------------------------------------------
(* Claims about the values (specification SpecValue) *)

\* the order of the extended real line, written out case by case
ExtLt(a, b) ==
    \/ a.k = "ninf" /\ b.k \in {"fin", "pinf"}
    \/ a.k = "fin" /\ b.k = "pinf"
    \/ a.k = "fin" /\ b.k = "fin" /\ a.n < b.n

ExtEq(a, b) == a.k \in {"fin", "pinf", "ninf"} /\ a = b

ExtRel(op, a, b) ==
    CASE op = "less" -> ExtLt(a, b)
      [] op = "less_equal" -> ExtLt(a, b) \/ ExtEq(a, b)
      [] op = "greater" -> ExtLt(b, a)
      [] op = "greater_equal" -> ExtLt(b, a) \/ ExtEq(a, b)

IntRel(op, m, n) ==
    CASE op = "less" -> m < n
      [] op = "less_equal" -> m <= n
      [] op = "greater" -> m > n
      [] op = "greater_equal" -> m >= n

CmpOps == {"less", "less_equal", "greater", "greater_equal"}

\* C4: for complex operands less, less_equal, greater and greater_equal are true
\* exactly when the real relation holds between the real parts and between the
\* imaginary parts; for int8 and uint8 operands the result is that of comparing
\* the integers.
C4_Comparisons ==
    res.op \in CmpOps =>
        /\ is_complex(x1) =>
               res.out = BoolT(ExtRel(res.op, x1.re, x2.re) /\ ExtRel(res.op, x1.im, x2.im))
        /\ x1.dtype \in {"int8", "uint8"} =>
               res.out = BoolT(IntRel(res.op, x1.re.n, x2.re.n))

\* a complex pair whose real parts are in relation and whose imaginary parts are not
C4_Witness ==
    /\ res.op = "less_equal"
    /\ is_complex(x1)
    /\ ExtRel("less_equal", x1.re, x2.re)
    /\ ~ExtRel("less_equal", x1.im, x2.im)
    /\ res.out = BoolT(FALSE)

\* C5: for a complex input a+bi, square returns real part a*a - b*b and imaginary
\* part 2*a*b, exactly the product of the input with itself, for every a and b.
C5_SquareIsProduct ==
    (res.op = "square" /\ is_complex(x1)) =>
        /\ res.out.re = paddle_multiply(x1, x1).re
        /\ res.out.im = paddle_multiply(x1, x1).im

\* the two elements have the same value: no NaN, equal real and imaginary parts
SameValue(a, b) ==
    /\ ~num_isnan(a.re) /\ ~num_isnan(a.im)
    /\ ~num_isnan(b.re) /\ ~num_isnan(b.im)
    /\ a.re = b.re
    /\ a.im = b.im

NearestEven(n) ==
    LET f == FloorN(n)
        r == n - f
    IN  IF 2 * r < Scale THEN f
        ELSE IF 2 * r > Scale THEN f + Scale
        ELSE IF (f \div Scale) % 2 = 0 THEN f ELSE f + Scale

\* C7: round returns, for every finite x, the integer nearest to x, and the even one
\* of the two when x lies halfway between two integers.
C7_RoundNearestEven ==
    (res.op = "round" /\ x1.dtype = "float32" /\ x1.re.k = "fin") =>
        res.out.re = Fin(NearestEven(x1.re.n))

---------------------------------------------------------------------------
(* Specifications of the test flags *)

MaxArrays == 3

MaxBuilds == 2

ElementIdle ==
    /\ kw = NoKw
    /\ inner = NoInner
    /\ x1 = BoolT(FALSE)
    /\ x2 = BoolT(FALSE)
    /\ alpha = NoAlpha
    /\ default_float = "float32"
    /\ res = NoRes

\* the flag holders of a test case with MaxArrays arrays: every choice of the
\* per-argument flags
Holders ==
    { [cls |-> "none", as_variable |-> av, native_arrays |-> na, container |-> co] :
        av \in [1 .. MaxArrays -> BOOLEAN], na \in [1 .. MaxArrays -> BOOLEAN],
        co \in [1 .. MaxArrays -> BOOLEAN] }

\* the calls: n entries starting at an offset, the entries pairwise distinct and
\* the dtypes pairwise distinct, so that a value shows the indices it was built from
Calls ==
    UNION { { [args |-> [k \in 1 .. n |-> 100 + k],
               input_dtypes |-> [i \in 1 .. MaxArrays |-> i],
               offset |-> o, at |-> 0, done |-> FALSE] :
              n \in 0 .. MaxArrays - o } : o \in 0 .. MaxArrays }

\* one array, offset 0, the three flags equal
SmallHolders ==
    { [cls |-> "none", as_variable |-> <<b>>, native_arrays |-> <<b>>, container |-> <<b>>] :
        b \in BOOLEAN }

SmallCalls ==
    { [args |-> <<101>>, input_dtypes |-> <<1>>, offset |-> 0, at |-> 0, done |-> FALSE] }

PyValues == {"None", "True", "False"}

\* the keys of flags_mapping and one key it does not have
BuildKeys == DOMAIN flags_mapping \cup {"frontend_array"}

Applied(cls, h, c, r) ==
    /\ holder' = [h EXCEPT !.cls = cls]
    /\ call' = [c EXCEPT !.at = builds, !.done = TRUE]
    /\ ret' = r
    /\ UNCHANGED <<x1, x2, alpha, default_float, res, flags, built, err, builds,
                   env, drawn, kw, inner, assertions, last_built>>

\* the holders without a container attribute
NoContainer(h) == [h EXCEPT !.container = <<>>]

FunctionApplyOn(H, C) ==
    \E h \in H, c \in C :
        Applied("FunctionTestFlags", h, c,
                FunctionTestFlags_apply_flags(h, c.args, c.input_dtypes, c.offset))

FrontendFunctionApplyOn(H, C) ==
    \E h \in H, c \in C :
        Applied("FrontendFunctionTestFlags", NoContainer(h), c,
                FrontendFunctionTestFlags_apply_flags(NoContainer(h), c.args,
                                                      c.input_dtypes, c.offset))

InitMethodApplyOn(H, C) ==
    \E h \in H, c \in C :
        Applied("InitMethodTestFlags", NoContainer(h), c,
                InitMethodTestFlags_apply_flags(NoContainer(h), c.args,
                                                c.input_dtypes, c.offset))

MethodApplyOn(H, C) ==
    \E h \in H, c \in C :
        Applied("MethodTestFlags", h, c,
                MethodTestFlags_apply_flags(h, c.args, c.input_dtypes, c.offset))

FrontendMethodApplyOn(H, C) ==
    \E h \in H, c \in C :
        Applied("FrontendMethodTestFlags", NoContainer(h), c,
                FrontendMethodTestFlags_apply_flags(NoContainer(h), c.args,
                                                    c.input_dtypes, c.offset))

\* one call of apply_flags of one holder, on every holder and call
InitApply == ElementIdle /\ FlagsIdle

FunctionApply == ~call.done /\ FunctionApplyOn(Holders, Calls)

FrontendFunctionApply == ~call.done /\ FrontendFunctionApplyOn(Holders, Calls)

InitMethodApply == ~call.done /\ InitMethodApplyOn(Holders, Calls)

MethodApply == ~call.done /\ MethodApplyOn(Holders, Calls)

FrontendMethodApply == ~call.done /\ FrontendMethodApplyOn(Holders, Calls)

NextApply ==
    \/ FunctionApply
    \/ FrontendFunctionApply
    \/ InitMethodApply
    \/ MethodApply
    \/ FrontendMethodApply

SpecApply == InitApply /\ [][NextApply]_vars

\* any sequence of build_flag and apply_flags calls, at most MaxBuilds build_flag
InitFlags == ElementIdle /\ ModuleIdle /\ env = NoEnv /\ assertions \in BOOLEAN

BuildFlag ==
    \E key \in BuildKeys, value \in PyValues :
        /\ builds < MaxBuilds
        /\ flags' = build_flag(flags, key, value, assertions).flags
        /\ err' = build_flag(flags, key, value, assertions).err
        /\ built' = [key |-> key, value |-> value]
        /\ builds' = builds + 1
        /\ last_built' = IF err' = "none" THEN [last_built EXCEPT ![key] = value]
                         ELSE last_built
        /\ UNCHANGED <<x1, x2, alpha, default_float, res, holder, call, ret,
                       env, drawn, kw, inner, assertions>>

FunctionApplyAgain == FunctionApplyOn(SmallHolders, SmallCalls)

FrontendFunctionApplyAgain == FrontendFunctionApplyOn(SmallHolders, SmallCalls)

InitMethodApplyAgain == InitMethodApplyOn(SmallHolders, SmallCalls)

MethodApplyAgain == MethodApplyOn(SmallHolders, SmallCalls)

FrontendMethodApplyAgain == FrontendMethodApplyOn(SmallHolders, SmallCalls)

NextFlags ==
    \/ BuildFlag
    \/ FunctionApplyAgain
    \/ FrontendFunctionApplyAgain
    \/ InitMethodApplyAgain
    \/ MethodApplyAgain
    \/ FrontendMethodApplyAgain

SpecFlags == InitFlags /\ [][NextFlags]_vars

---------------------------------------------------------------------------
(* Claims about the test flags (specifications SpecApply and SpecFlags) *)

HasContainer(cls) == cls \in {"FunctionTestFlags", "MethodTestFlags"}

LeafOf(v) == IF v.container THEN v.a ELSE v.x

Has(steps, s) == \E j \in 1 .. Len(steps) : steps[j] = s

\* C8: for each of the five holders, apply_flags returns one materialized value
\* per element of args_to_iterate, in the same order, and the value at position k
\* is built from entry k, input_dtypes[offset+k] and the per-argument flags at
\* index offset+k (as_variable, native_arrays and, where present, container).
C8_OnePerArgument ==
    call.done =>
        /\ Len(ret) = Len(call.args)
        /\ \A k \in 1 .. Len(call.args) :
              LET i == call.offset + k
                  leaf == LeafOf(ret[k])
              IN  /\ leaf.entry = call.args[k]
                  /\ leaf.dtype = call.input_dtypes[i]
                  /\ Has(leaf.steps, "variable") <=> holder.as_variable[i]
                  /\ Has(leaf.steps, "native") <=> holder.native_arrays[i]
                  /\ ret[k].container <=>
                        (HasContainer(holder.cls) /\ holder.container[i])

\* a call with a positive offset and two entries whose flags differ from those
\* of the first arguments
C8_Witness ==
    /\ call.done
    /\ holder.cls = "FrontendFunctionTestFlags"
    /\ call.offset = 1
    /\ Len(ret) = 2
    /\ holder.as_variable[1] # holder.as_variable[2]
    /\ holder.native_arrays[2] # holder.native_arrays[3]

\* C9: in FunctionTestFlags.apply_flags and MethodTestFlags.apply_flags each value
\* goes through the steps array, variable (if as_variable[i]), native (if
\* native_arrays[i]), container (if container[i]) in that order, each step on the
\* output of the earlier ones, and a container has the three leaves a, b/c and
\* b/d, all holding that same value.
C9_Pipeline ==
    (call.done /\ HasContainer(holder.cls)) =>
        \A k \in 1 .. Len(ret) :
            LET i == call.offset + k
                expected ==
                    <<"array">>
                    \o (IF holder.as_variable[i] THEN <<"variable">> ELSE <<>>)
                    \o (IF holder.native_arrays[i] THEN <<"native">> ELSE <<>>)
                value == [entry |-> call.args[k], dtype |-> call.input_dtypes[i],
                          steps |-> expected]
            IN  IF holder.container[i]
                THEN /\ ret[k].container
                     /\ ret[k].a = value
                     /\ ret[k].c = value
                     /\ ret[k].d = value
                ELSE /\ ~ret[k].container
                     /\ ret[k].x = value

\* a value that went through all four steps
C9_Witness ==
    /\ call.done
    /\ holder.cls = "MethodTestFlags"
    /\ Len(ret) >= 1
    /\ ret[1].container
    /\ ret[1].a.steps = <<"array", "variable", "native">>
    /\ ret[1].c = ret[1].a
    /\ ret[1].d = ret[1].a

\* C10 as stated: after any sequence of build_flag and apply_flags calls the
\* module-level flag strategies are the same as at import time.
C10_Original == flags = ImportFlags

\* C10 amended: apply_flags calls never change the module-level flag strategies,
\* but a build_flag call that returns stores its strategy (st.just(value), or None
\* for a None value) in the flag mapped to its key, and the flag keeps it through
\* every apply_flags call that follows.
C10_BuildPersists ==
    /\ builds = 0 => flags = ImportFlags
    /\ (builds > 0 /\ err = "none") =>
          flags[flags_mapping[built.key]] =
              IF built.value = "None" THEN PyNone ELSE st_just(built.value)

\* a flag set by build_flag is seen changed by an apply_flags call made after it
C10_Witness ==
    /\ builds > 0
    /\ err = "none"
    /\ built = [key |-> "native_array", value |-> "True"]
    /\ call.done
    /\ call.at = builds
    /\ flags["BuiltNativeArrayStrategy"] = st_just("True")
    /\ flags # ImportFlags

\* C11: every key of flags_mapping names an existing module-level DynamicFlag, so
\* build_flag(key, value) with any of the ten keys passes its assertion and sets
\* the strategy of the corresponding flag.
C11_EveryKeyBuilds ==
    (builds > 0 /\ built.key \in DOMAIN flags_mapping) =>
        /\ flags_mapping[built.key] \in DOMAIN ImportFlags
        /\ err = "none"
        /\ flags[flags_mapping[built.key]] =
              IF built.value = "None" THEN PyNone ELSE st_just(built.value)

---------------------------------------------------------------------------
(* Drawing the flags: the strategies are evaluated at draw time, under the *)
(* test globals of that moment                                             *)

\* CURRENT_BACKEND, CURRENT_FRONTEND (the sentinel _Notsetval or a name) and
\* CURRENT_FRONTEND_STR (None, or a string, possibly empty)
Envs ==
    [backend : {"_Notsetval", "numpy", "torch"},
     frontend : {"_Notsetval", "numpy", "torch"},
     frontend_str : {"None", "", "numpy/1.24.2"}]

\* Python truth value of CURRENT_FRONTEND_STR
FrontendStrSet(e) == e.frontend_str \notin {"None", ""}

\* the values _gradient_strategy can draw
draw_gradient_strategy(e) ==
    IF e.backend = "numpy" THEN {"False"} ELSE {"False", "True"}

draw_as_varaible_no_frontend(e) ==
    IF e.backend # "_Notsetval" /\ e.backend = "numpy" THEN {"[False]"}
    ELSE {"[False]", "[True]"}

\* the values _as_varaible_strategy can draw
draw_as_varaible_strategy(e) ==
    IF e.backend # "_Notsetval" /\ e.backend = "numpy" THEN {"[False]"}
    ELSE IF ~FrontendStrSet(e) /\ e.frontend # "_Notsetval" /\ e.frontend = "numpy"
         THEN {"[False]"}
    ELSE {"[False]", "[True]"}

\* a draw that keeps the numpy guards for a flag that build_flag has set
draw_numpy_guard_kept(strategy, e) ==
    IF strategy.kind = "just" /\ e.backend = "numpy" THEN {"False", "[False]"}
    ELSE IF strategy.kind = "just" THEN {strategy.v}
    ELSE IF strategy = st_booleans THEN {"False", "True"}
    ELSE IF strategy = st_lists_booleans THEN {"[False]", "[True]"}
    ELSE IF strategy = _gradient_strategy THEN draw_gradient_strategy(e)
    ELSE IF strategy = _as_varaible_strategy THEN draw_as_varaible_strategy(e)
    ELSE {"InvalidArgument"}

\* the values a strategy can draw; None is no strategy and drawing from it fails
draw(strategy, e) ==
    IF strategy.kind = "just" THEN {strategy.v}
    ELSE IF strategy = st_booleans THEN {"False", "True"}
    ELSE IF strategy = st_lists_booleans THEN {"[False]", "[True]"}
    ELSE IF strategy = _gradient_strategy THEN draw_gradient_strategy(e)
    ELSE IF strategy = _as_varaible_strategy THEN draw_as_varaible_strategy(e)
    ELSE {"InvalidArgument"}

InitDraw == ElementIdle /\ ModuleIdle /\ env \in Envs /\ assertions \in BOOLEAN

\* a test case draws one flag from the strategy the flag holds now
DrawFlag ==
    \E f \in DOMAIN flags :
        \E v \in draw(flags[f], env) :
            /\ drawn' = [flag |-> f, value |-> v]
            /\ UNCHANGED <<x1, x2, alpha, default_float, res, flags, holder, call, ret,
                           built, err, builds, env, kw, inner, assertions, last_built>>

BuildFlagOnce == builds = 0 /\ BuildFlag

NextDraw ==
    \/ BuildFlagOnce
    \/ DrawFlag

SpecDraw == InitDraw /\ [][NextDraw]_vars

\* C12: with the default strategies, the gradient flag is drawn as False and the
\* as_variable flag as [False] whenever the current backend is numpy; as_variable
\* is also [False] when no frontend string is set and the current frontend is
\* numpy; in every other case as_variable is a list of exactly one boolean.
C12_NumpyGuards ==
    /\ (drawn.flag = "BuiltGradientStrategy"
        /\ flags["BuiltGradientStrategy"] = ImportFlags["BuiltGradientStrategy"]
        /\ env.backend = "numpy") => drawn.value = "False"
    /\ (drawn.flag = "BuiltAsVariableStrategy"
        /\ flags["BuiltAsVariableStrategy"] = ImportFlags["BuiltAsVariableStrategy"]) =>
            IF env.backend = "numpy"
               \/ (~FrontendStrSet(env) /\ env.frontend = "numpy")
            THEN drawn.value = "[False]"
            ELSE drawn.value \in {"[False]", "[True]"}

\* as_variable was drawn under a numpy frontend without a frontend string and a
\* backend other than numpy
C12_Witness ==
    /\ drawn = [flag |-> "BuiltAsVariableStrategy", value |-> "[False]"]
    /\ flags = ImportFlags
    /\ env.backend = "torch"
    /\ env.frontend = "numpy"
    /\ env.frontend_str = ""

---------------------------------------------------------------------------
(* elementwise.py: isinf, and the specification of the calls on one tensor *)

paddle_isinf(a) ==
    IF IsUnk(a) THEN UnkBool
    ELSE BoolT(a.re.k \in {"pinf", "ninf"} \/ (is_complex(a) /\ a.im.k \in {"pinf", "ninf"}))

\* the tensor a Python float v becomes beside tensor x in promote_types_of_inputs
float_scalar(x, v, dflt) ==
    LET d == IF x.dtype \notin FloatDtypes \cup ComplexDtypes THEN dflt ELSE x.dtype
    IN  T(d, v, ZeroOf(d))

isinf_signs_swapped(x, detect_positive, detect_negative, dflt) ==
    IF detect_negative /\ detect_positive THEN paddle_isinf(x)
    ELSE IF detect_negative THEN equal(x, float_scalar(x, PInf, dflt), dflt)
    ELSE IF detect_positive THEN equal(x, float_scalar(x, NInf, dflt), dflt)
    ELSE BoolT(FALSE)

isinf(x, detect_positive, detect_negative, dflt) ==
    IF detect_negative /\ detect_positive THEN paddle_isinf(x)
    ELSE IF detect_negative THEN equal(x, float_scalar(x, NInf, dflt), dflt)
    ELSE IF detect_positive THEN equal(x, float_scalar(x, PInf, dflt), dflt)
    ELSE BoolT(FALSE)

UnaryInputs == Float32Inputs \cup Complex64Inputs \cup Int8Inputs \cup UInt8Inputs

InitUnaryValue ==
    /\ x1 \in UnaryInputs
    /\ x2 = x1
    /\ alpha = NoAlpha
    /\ default_float \in DefaultFloats
    /\ res = NoRes
    /\ kw = NoKw
    /\ inner = NoInner
    /\ FlagsIdle

\* a call with keyword arguments k returns out
Call(op, out, k) ==
    /\ res = NoRes
    /\ res' = [op |-> op, out |-> out, uw |-> FALSE]
    /\ kw' = k
    /\ UNCHANGED <<x1, x2, alpha, default_float, flags, holder, call, ret, built, err,
                   builds, env, drawn, inner, assertions, last_built>>

IsInf ==
    \E p \in BOOLEAN, n \in BOOLEAN :
        Call("isinf", isinf(x1, p, n, default_float),
             [NoKw EXCEPT !.detect_positive = p, !.detect_negative = n])

\* C13: isinf(x, detect_positive=p, detect_negative=n) is true for an element
\* exactly when (it is +inf and p) or (it is -inf and n), for the four
\* combinations of p and n and every real element value, NaN and finite ones
\* included; with both flags false the result is false everywhere.
C13_IsInfBySign ==
    (res.op = "isinf" /\ ~is_complex(x1)) =>
        res.out = BoolT((x1.re.k = "pinf" /\ kw.detect_positive)
                        \/ (x1.re.k = "ninf" /\ kw.detect_negative))

\* -inf tested with detect_negative only
C13_Witness ==
    /\ res.op = "isinf"
    /\ x1.dtype = "float32"
    /\ x1.re.k = "ninf"
    /\ ~kw.detect_positive
    /\ kw.detect_negative
    /\ res.out = BoolT(TRUE)

---------------------------------------------------------------------------
(* elementwise.py: not_equal, and the specification of the calls on two    *)
(* tensors of sample values                                                *)

not_equal_by_difference(a, b, dflt) ==
    Bind(_elementwise_helper(a, b), LAMBDA h :
    Bind(subtract(h.x1, h.x2, NoAlpha, dflt), LAMBDA diff :
        paddle_logical_not(
            logical_and(less_equal(diff, scalar_like(diff, 0)),
                        greater_equal(diff, scalar_like(diff, 0))))))

not_equal(a, b, dflt) == paddle_logical_not(equal(a, b, dflt))

NotEqual == Return("not_equal", not_equal(x1, x2, default_float))

HasNaN(x) == x.re.k = "nan" \/ x.im.k = "nan"

\* C14: not_equal(x1, x2) is the logical negation of equal(x1, x2) for every pair
\* of inputs, so it is true whenever either operand is NaN (NaN against NaN
\* included) and false for two infinities of the same sign.
C14_NotEqualNegatesEqual ==
    res.op = "not_equal" =>
        /\ res.out = BoolT(~Truthy(equal(x1, x2, default_float)))
        /\ (HasNaN(x1) \/ HasNaN(x2)) => res.out = BoolT(TRUE)
        /\ (x1 = x2 /\ x1.re.k \in {"pinf", "ninf"} /\ ~HasNaN(x1)) => res.out = BoolT(FALSE)

\* NaN against NaN, and +inf against +inf
C14_Witness ==
    /\ res.op = "not_equal"
    /\ x1.dtype = "float32"
    /\ x1.re.k = "pinf"
    /\ x2 = x1
    /\ res.out = BoolT(FALSE)

C14_WitnessNaN ==
    /\ res.op = "not_equal"
    /\ x1.re.k = "nan"
    /\ x2.re.k = "nan"
    /\ res.out = BoolT(TRUE)

---------------------------------------------------------------------------
(* Specification of add and subtract on sample values with every alpha *)

\* alpha: None, 1, 1.0, True, and the scaling values 2, 2.5, -1, 0 and False
ValueAlphas ==
    Alphas \cup {[k |-> "int", n |-> -Scale], [k |-> "int", n |-> 0],
                 [k |-> "bool", n |-> 0]}

AlphaPairs ==
    LET f32 == {T("float32", v, Fin(0)) : v \in CompSamples}
    IN  (f32 \X f32) \cup (Complex64Inputs \X Complex64Inputs)
        \cup (Int8Inputs \X Int8Inputs) \cup (UInt8Inputs \X UInt8Inputs)

InitAlpha ==
    /\ \E p \in AlphaPairs : x1 = p[1] /\ x2 = p[2]
    /\ alpha = NoAlpha
    /\ default_float = "float32"
    /\ res = NoRes
    /\ kw = NoKw
    /\ inner = NoInner
    /\ FlagsIdle

AddValue == \E al \in ValueAlphas : ReturnAlpha("add", add(x1, x2, al, default_float), al)

SubtractValue ==
    \E al \in ValueAlphas :
        ReturnAlpha("subtract", subtract(x1, x2, al, default_float), al)

NextAlpha ==
    \/ AddValue
    \/ SubtractValue

SpecAlpha == InitAlpha /\ [][NextAlpha]_vars

\* a number as a float
AsFin(a) == IF a.k = "int" THEN Fin(a.n * Scale) ELSE a

\* the value of alpha as a float, None counting as 1
AlphaValue(al) == IF al.k = "none" THEN Fin(Scale) ELSE Fin(al.n)

\* alpha * y: the product of the numbers for a real y; for a complex y the
\* product with alpha + 0i, and y itself when alpha is None or equal to 1
RefScaled(al, y) ==
    LET a == AlphaValue(al)
    IN  IF ~is_complex(y)
        THEN [re |-> num_mul(a, AsFin(y.re)), im |-> Fin(0)]
        ELSE IF al.k = "none" \/ al.n = Scale THEN [re |-> y.re, im |-> y.im]
        ELSE [re |-> num_sub(num_mul(y.re, a), num_mul(y.im, Fin(0))),
              im |-> num_add(num_mul(y.re, Fin(0)), num_mul(y.im, a))]

\* C15: add and subtract scale x2 by alpha only when alpha is neither None nor
\* equal to 1; in every case the result equals x1 + alpha*x2 (x1 - alpha*x2),
\* in the promoted dtype of x1 and x2, whatever the type of alpha.
C15_AlphaScaling ==
    res.op \in {"add", "subtract"} =>
        LET d == _elementwise_helper(x1, x2).ret_dtype
            s == RefScaled(alpha, x2)
            re == IF res.op = "add" THEN num_add(AsFin(x1.re), s.re)
                  ELSE num_sub(AsFin(x1.re), s.re)
            im == IF res.op = "add" THEN num_add(AsFin(x1.im), s.im)
                  ELSE num_sub(AsFin(x1.im), s.im)
        IN  /\ res.out.dtype = d
            /\ res.out.re = Conv(re, d)
            /\ is_complex(x1) => res.out.im = Conv(im, d)

\* int8 operands scaled by the float 2.5: the sum is converted to int8
C15_Witness ==
    /\ res.op = "add"
    /\ alpha = [k |-> "float", n |-> 2 * Scale + Scale \div 2]
    /\ x1 = T("int8", IntV(1), IntV(0))
    /\ x2 = T("int8", IntV(1), IntV(0))
    /\ res.out = Via(T("int8", IntV(3), IntV(0)), "float32")

\* the comparison of two elements, on both components for complex ones
RefLe(a, b) == num_le(a.re, b.re) /\ (is_complex(a) => num_le(a.im, b.im))

SameElement(r, x) == r.dtype = x.dtype /\ r.re = x.re /\ r.im = x.im

\* C16: with use_where=True, and for complex operands whatever use_where is,
\* minimum returns x1 where less_equal(x1, x2) holds and x2 elsewhere, maximum
\* returns x1 where greater_equal(x1, x2) holds and x2 elsewhere; so the result is
\* one of the two operand elements, and it is x2 when x1 is NaN or the complex
\* operands are not comparable on both components.
C16_WherePath ==
    (res.op \in {"minimum", "maximum"} /\ (res.uw \/ is_complex(x1))) =>
        LET first == IF res.op = "minimum" THEN RefLe(x1, x2) ELSE RefLe(x2, x1)
        IN  /\ SameElement(res.out, IF first THEN x1 ELSE x2)
            /\ SameElement(res.out, x1) \/ SameElement(res.out, x2)
            /\ (HasNaN(x1) \/ (~RefLe(x1, x2) /\ ~RefLe(x2, x1))) =>
                  SameElement(res.out, x2)

\* complex operands that are not comparable, use_where=False: x2 is returned
C16_Witness ==
    /\ res.op = "maximum"
    /\ ~res.uw
    /\ is_complex(x1)
    /\ x1.re = Whole(1) /\ x1.im = Whole(0)
    /\ x2.re = Whole(0) /\ x2.im = Whole(1)
    /\ SameElement(res.out, x2)

---------------------------------------------------------------------------
(* elementwise.py: nan_to_num *)

\* ivy.iinfo(x).max / .min and ivy.finfo(x).max / .min
dtype_max(d) ==
    IF d = "int8" THEN IntV(127) ELSE IF d = "uint8" THEN IntV(255)
    ELSE IF d = "int16" THEN IntV(32767) ELSE Fin(FMax)

dtype_min(d) ==
    IF d = "int8" THEN IntV(-128) ELSE IF d = "uint8" THEN IntV(0)
    ELSE IF d = "int16" THEN IntV(-32768) ELSE Fin(-FMax)

\* paddle.to_tensor(v, dtype=d) of a Python number
to_tensor(v, d) == T(d, Conv(v, d), ZeroOf(d))

nan_to_num_one_pass(x, nan, posinf, neginf, copy, dflt) ==
    LET pos == IF posinf.k = "none" THEN dtype_max(x.dtype) ELSE posinf
        neg == IF neginf.k = "none" THEN dtype_min(x.dtype) ELSE neginf
        zero == scalar_like(x, 0)
    IN  where(isnan(x), to_tensor(nan, x.dtype),
          where(logical_and(isinf(x, TRUE, TRUE, dflt), paddle_greater_than(x, zero)),
                to_tensor(pos, x.dtype),
            where(logical_and(isinf(x, TRUE, TRUE, dflt), paddle_less_than(x, zero)),
                  to_tensor(neg, x.dtype), x)))

nan_to_num(x, nan, posinf, neginf, copy, dflt) ==
    LET pos == IF posinf.k = "none" THEN dtype_max(x.dtype) ELSE posinf
        neg == IF neginf.k = "none" THEN dtype_min(x.dtype) ELSE neginf
    IN  Bind(where(isnan(x), to_tensor(nan, x.dtype), x), LAMBDA r1 :
        Bind(where(logical_and(isinf(r1, TRUE, TRUE, dflt),
                               paddle_greater_than(r1, scalar_like(r1, 0))),
                   to_tensor(pos, x.dtype), r1), LAMBDA r2 :
             where(logical_and(isinf(r2, TRUE, TRUE, dflt),
                               paddle_less_than(r2, scalar_like(r2, 0))),
                   to_tensor(neg, x.dtype), r2)))

\* the nan, posinf and neginf arguments: finite, infinite, and None
NanArgs == {Fin(0), Whole(1), PInf, NInf}

PosinfArgs == {PyNoneV, Whole(2), PInf, NInf}

NeginfArgs == {PyNoneV, Whole(-2), PInf, NInf}

NanToNum ==
    \E nan \in NanArgs, posinf \in PosinfArgs, neginf \in NeginfArgs, copy \in BOOLEAN :
        /\ ~is_complex(x1)
        /\ Call("nan_to_num", nan_to_num(x1, nan, posinf, neginf, copy, default_float),
                [NoKw EXCEPT !.nan = nan, !.posinf = posinf, !.neginf = neginf,
                             !.copy = copy])

\* C17: nan_to_num replaces every NaN element by the nan argument, every +inf by
\* posinf (the dtype's maximum when posinf is None) and every -inf by neginf (the
\* dtype's minimum when neginf is None), and leaves every other element
\* unchanged, for every choice of the three arguments, infinite ones included.
C17_NanToNum ==
    res.op = "nan_to_num" =>
        LET d == x1.dtype
            pos == IF kw.posinf.k = "none" THEN dtype_max(d) ELSE kw.posinf
            neg == IF kw.neginf.k = "none" THEN dtype_min(d) ELSE kw.neginf
        IN  /\ res.out.dtype = d
            /\ res.out.re = IF x1.re.k = "nan" THEN Conv(kw.nan, d)
                            ELSE IF x1.re.k = "pinf" THEN Conv(pos, d)
                            ELSE IF x1.re.k = "ninf" THEN Conv(neg, d)
                            ELSE x1.re

\* the same with the nan and posinf arguments finite
C17_FiniteArguments ==
    (kw.nan.k = "fin" /\ kw.posinf.k \in {"none", "fin"}) => C17_NanToNum

---------------------------------------------------------------------------
(* elementwise.py: remainder *)

\* paddle.remainder: the remainder of the floored division, followed for finite
\* operands and a nonzero divisor
paddle_remainder(a, b) ==
    LET r == IF a.re.k \notin {"int", "fin"} \/ b.re.k \notin {"int", "fin"} THEN AnyV
             ELSE IF b.re.n = 0 THEN AnyV
             ELSE IF b.re.n > 0 THEN Mk(a.re, a.re.n % b.re.n)
             ELSE Mk(a.re, -((-a.re.n) % (-b.re.n)))
    IN  Via(T(a.dtype, r, ZeroOf(a.dtype)), a.dtype)

remainder(a, b, modulus, dflt) ==
    Bind(_elementwise_helper(a, b), LAMBDA h :
    IF ~modulus
    THEN Bind(divide(h.x1, h.x2, dflt), LAMBDA q :
         Bind(where(greater_equal(q, float_scalar(q, Fin(0), dflt)), floor(q), ceil(q)),
              LAMBDA res_floored :
         Bind(astype(subtract(q, res_floored, NoAlpha, dflt), q.dtype), LAMBDA diff :
              astype(round(multiply(diff, h.x2)), h.x1.dtype))))
    ELSE LET up == h.x1.dtype \in {"int8", "int16", "uint8", "float16"}
             y1 == IF up THEN astype(h.x1, "float32") ELSE h.x1
             y2 == IF up THEN astype(h.x2, "float32") ELSE h.x2
         IN  astype(paddle_remainder(y1, y2), h.ret_dtype))

Remainder ==
    \E modulus \in BOOLEAN :
        /\ ~is_complex(x1)
        /\ Call("remainder", remainder(x1, x2, modulus, default_float),
                [NoKw EXCEPT !.modulus = modulus])

\* x1 - trunc(x1 / x2) * x2 on scaled integers: the sign follows the dividend
TruncRem(m, n) ==
    LET am == IF m >= 0 THEN m ELSE -m
        an == IF n >= 0 THEN n ELSE -n
    IN  IF m >= 0 THEN am % an ELSE -(am % an)

FiniteNonzeroDivisor ==
    /\ x1.re.k \in {"int", "fin"}
    /\ x2.re.k \in {"int", "fin"}
    /\ x2.re.n # 0

\* C18: remainder(x1, x2, modulus=False) returns x1 - trunc(x1/x2)*x2, whose sign
\* follows the dividend, in the promoted dtype, for every real x1 and nonzero x2,
\* integer-valued or not.
C18_TruncatedRemainder ==
    (res.op = "remainder" /\ ~kw.modulus /\ FiniteNonzeroDivisor
     /\ res.out.re.k # "any") =>
        /\ res.out.dtype = _elementwise_helper(x1, x2).ret_dtype
        /\ res.out.re = Mk(x1.re, TruncRem(x1.re.n, x2.re.n))

\* the same for integer-valued operands only
C18_IntegerValued ==
    (x1.re.k = "fin" => (x1.re.n % Scale = 0 /\ x2.re.n % Scale = 0))
        => C18_TruncatedRemainder

---------------------------------------------------------------------------
(* elementwise.py: tan, asin and atan of a complex tensor *)

\* the values tanh, asinh and atanh may return for a complex tensor of dtype d:
\* the kernels are not followed, every sample is a possible output
KernelSamples == {Fin(0), Fin(Scale), Fin(-(Scale \div 2)), PInf, NaN}

KernelOutputs(d) == {Via(T(d, v[1], v[2]), d) : v \in KernelSamples \X KernelSamples}

\* a call that passes arg to fn of the backend, which returns out
Inner(fn, arg, out) ==
    inner' = [fn |-> fn, arg |-> arg, out |-> out]

CallVia(op, out) ==
    /\ res = NoRes
    /\ res' = [op |-> op, out |-> out, uw |-> FALSE]
    /\ UNCHANGED <<x1, x2, alpha, default_float, flags, holder, call, ret, built, err,
                   builds, env, drawn, kw, assertions, last_built>>

Tan ==
    /\ is_complex(x1)
    /\ \E tanh_ix \in KernelOutputs(tanh(tan_argument(x1)).dtype) :
           /\ Inner("tanh", tan_argument(x1), tanh_ix)
           /\ CallVia("tan", tan_result(tanh_ix))

Asin ==
    /\ is_complex(x1)
    /\ \E asinh_iz \in KernelOutputs(asinh(asin_argument(x1)).dtype) :
           /\ Inner("asinh", asin_argument(x1), asinh_iz)
           /\ CallVia("asin", asin_result(asinh_iz))

Atan ==
    /\ x1.dtype \in {"complex64", "complex128"}
    /\ \E atanh_iz \in KernelOutputs(atanh(atan_argument(x1)).dtype) :
           /\ Inner("atanh", atan_argument(x1), atanh_iz)
           /\ CallVia("atan", atan_result(atanh_iz))

Hyperbolic == [tan |-> "tanh", asin |-> "asinh", atan |-> "atanh"]

---------------------------------------------------------------------------
(* test_parameter_flags.py: the holders without a container attribute *)

\* the holder with every container flag False
ContainerOff(h) == [h EXCEPT !.container = [i \in 1 .. MaxArrays |-> FALSE]]

\* C20: the apply_flags of FrontendFunctionTestFlags, InitMethodTestFlags and
\* FrontendMethodTestFlags never return a container, and return exactly what
\* FunctionTestFlags.apply_flags and MethodTestFlags.apply_flags return for the same
\* arguments, as_variable and native_arrays when every container flag is False.
C20_SameAsContainerOff ==
    (call.done /\ ~HasContainer(holder.cls)) =>
        /\ \A k \in 1 .. Len(ret) : ~ret[k].container
        /\ ret = FunctionTestFlags_apply_flags(ContainerOff(holder), call.args,
                                               call.input_dtypes, call.offset)
        /\ ret = MethodTestFlags_apply_flags(ContainerOff(holder), call.args,
                                             call.input_dtypes, call.offset)

\* InitMethodTestFlags.apply_flags on two arguments after an offset, the first made
\* a variable and converted to native, the second left an array
C20_Witness ==
    /\ call.done
    /\ holder.cls = "InitMethodTestFlags"
    /\ call.offset = 1
    /\ Len(ret) = 2
    /\ ret[1].x.steps = <<"array", "variable", "native">>
    /\ ret[2].x.steps = <<"array">>

---------------------------------------------------------------------------
(* Claims about build_flag (specifications SpecFlags and SpecDraw) *)

\* the strategy build_flag stores for a value
StrategyFor(value) == IF value = "None" THEN PyNone ELSE st_just(value)

\* a step that is a build_flag call which returns
BuildReturns == builds' = builds + 1 /\ err' = "none"

\* such a call changes the strategy of the flag mapped to its key, to the strategy
\* for its value, and of no other flag
C21_OneFlagChanges ==
    BuildReturns =>
        /\ DOMAIN flags' = DOMAIN flags
        /\ flags_mapping[built'.key] \in DOMAIN flags
        /\ flags'[flags_mapping[built'.key]] = StrategyFor(built'.value)
        /\ \A f \in DOMAIN flags \ {flags_mapping[built'.key]} : flags'[f] = flags[f]

\* every flag holds the strategy of the last call that returned for its key, or
\* its import-time strategy when there was none
C21_LastCallWins ==
    /\ DOMAIN flags = DOMAIN ImportFlags
    /\ \A f \in DOMAIN flags :
          LET keys == {k \in DOMAIN flags_mapping :
                          flags_mapping[k] = f /\ last_built[k] # "unset"}
          IN  IF keys = {} THEN flags[f] = ImportFlags[f]
              ELSE \A k \in keys : flags[f] = StrategyFor(last_built[k])

\* C21: a build_flag(key, value) call that returns changes the strategy of exactly
\* the flag mapped to key, to st.just(value) or to None for a None value, and after
\* any sequence of calls every flag holds the strategy of the last call that
\* returned for its key, or its import-time strategy.
C21_ExactlyOneFlag == []C21_LastCallWins /\ [][C21_OneFlagChanges]_vars

\* two calls returned, for different keys, one with a value and one with None
C21_Witness ==
    /\ builds = 2
    /\ err = "none"
    /\ built = [key |-> "with_out", value |-> "None"]
    /\ last_built["native_array"] = "False"
    /\ flags["BuiltNativeArrayStrategy"] = st_just("False")
    /\ flags["BuiltWithOutStrategy"] = PyNone
    /\ flags["BuiltContainerStrategy"] = ImportFlags["BuiltContainerStrategy"]

NumpyGuarded == {"as_variable", "test_gradients"}

\* a draw made after build_flag returned for as_variable or test_gradients with a
\* value other than None, from the flag of that key
DrawsBuiltFlag ==
    /\ drawn' # drawn
    /\ builds > 0
    /\ err = "none"
    /\ built.key \in NumpyGuarded
    /\ built.value # "None"
    /\ drawn'.flag = flags_mapping[built.key]

\* C22: after build_flag('as_variable', v) or build_flag('test_gradients', v) with v
\* not None the flag is drawn as v whatever the current backend and frontend are,
\* also when the backend is numpy and v is True.
C22_DrawnAsBuilt == [][DrawsBuiltFlag => drawn'.value = built.value]_vars

\* as_variable drawn as True under the numpy backend
C22_Witness ==
    /\ env.backend = "numpy"
    /\ built = [key |-> "as_variable", value |-> "True"]
    /\ err = "none"
    /\ flags["BuiltAsVariableStrategy"] = st_just("True")
    /\ drawn = [flag |-> "BuiltAsVariableStrategy", value |-> "True"]

\* a step that is a build_flag call which raises
BuildRaises == builds' = builds + 1 /\ err' # "none"

\* C23: a build_flag call that fails changes no flag; it raises a KeyError for a key
\* that is not in flags_mapping and, the interpreter executing assert statements, an
\* AssertionError for a key whose mapped name is not a module-level variable.
C23_FailureChangesNothing ==
    [][BuildRaises =>
          /\ flags' = flags
          /\ built'.key \notin DOMAIN flags_mapping => err' = "KeyError"
          /\ (built'.key \in DOMAIN flags_mapping /\ assertions) =>
                /\ flags_mapping[built'.key] \notin DOMAIN flags
                /\ err' = "AssertionError"]_vars

\* the call build_flag('inplace', True) raised its AssertionError after an earlier
\* call had set a flag, which is still set
C23_Witness ==
    /\ assertions
    /\ builds = 2
    /\ built = [key |-> "inplace", value |-> "True"]
    /\ err = "AssertionError"
    /\ last_built["native_array"] = "True"
    /\ flags["BuiltNativeArrayStrategy"] = st_just("True")
    /\ flags["BuiltInplaceStrategy"] = ImportFlags["BuiltInplaceStrategy"]

\* an unknown key raised a KeyError after an earlier call had set a flag
C23_WitnessKeyError ==
    /\ builds = 2
    /\ built.key = "frontend_array"
    /\ err = "KeyError"
    /\ last_built["native_array"] = "True"
    /\ flags["BuiltNativeArrayStrategy"] = st_just("True")

---------------------------------------------------------------------------
(* The specifications of the calls on sample values *)

NextUnaryValue ==
    \/ IsInf
    \/ NanToNum
    \/ Tan
    \/ Asin
    \/ Atan

SpecUnaryValue == InitUnaryValue /\ [][NextUnaryValue]_vars

NextBinaryValue ==
    \/ NotEqual
    \/ Minimum
    \/ Maximum
    \/ Remainder

SpecBinaryValue == InitValue /\ [][NextBinaryValue]_vars

===========================================================================
